---- MODULE Spec2Model ----
(***************************************************************************)
(* Multilingual sentiment analysis: the SentimentAnalyzer class            *)
(* (sentiment_analyzer.py) and the rule-based fallback classifier          *)
(* (simple_app.py), modelled as state machines over small input sets.      *)
(*                                                                         *)
(* Texts and labels are TLA+ strings; a character is a string of length 1. *)
(* Scores are fixed-point numbers: the integer q stands for q / ScoreDen.  *)
(* A Python dict is a record [order, val]: the keys in insertion order and *)
(* the value of each key.                                                  *)
(***************************************************************************)
EXTENDS Integers, Sequences, FiniteSets, TLC

VARIABLES
    pc,                \* "call" before analyze_sentiment runs, "returned" after
    text,              \* the argument of analyze_sentiment
    classifier_answer, \* what self.classifier does when it is called
    invoked,           \* whether analyze_sentiment called self.classifier
    classifier_input,  \* the text self.classifier received
    result,            \* the dictionary analyze_sentiment returned
    simple_text,       \* argument of the last simple_sentiment_analysis call
    simple_result,     \* the dictionary simple_sentiment_analysis returned
    lang_text,         \* argument of detect_language_simple, as code points
    lang_result,       \* the dictionary detect_language_simple returned
    batch_app,         \* "full" (app.py) or "simple" (simple_app.py)
    uploaded_file,     \* the uploaded CSV, as pd.read_csv reads it
    fault,             \* where a Streamlit or plotting call raises, 0: nowhere
    text_column,       \* the column the batch reads its texts from
    next_row,          \* position of df.iterrows()
    batch_results,     \* the list `results` of row dictionaries
    analyzed,          \* the texts given to the detector and the analyzer
    ui,                \* what the page shows, in the order of the st.* calls
    results_df,        \* the result table given to st.dataframe
    csv_data,          \* the data of the download button
    requested_model,   \* the model_name given to SentimentAnalyzer(...)
    cuda_available,    \* torch.cuda.is_available()
    load_outcomes,     \* whether the first and the second pipeline() call load
    self_model_name,   \* self.model_name
    self_device,       \* self.device
    self_classifier,   \* self.classifier: None, or the model of the pipeline
    loads,             \* the models pipeline() was called for, in order
    load_error,        \* the exception that left the constructor, or None
    startup_error,     \* the st.error of main when loading fails, or None
    calls,             \* number of method calls made on the analyzer
    last_call,         \* the last method call: its texts and what it returned
    first_results,     \* for each text, the first result returned for it
    speech_fn,         \* "transcribe_audio_google" or "test_google_speech_api"
    api_key,           \* os.environ.get("GOOGLE_CLOUD_API_KEY")
    audio_data,        \* the audio_data argument: "bytes", or "None"
    language_code,     \* the language_code argument
    http_outcome,      \* what requests.post does: it raises, or a response
    requests_sent,     \* number of requests.post calls of this call
    speech_result,     \* what the function returned
    speech_raised,     \* whether an exception left the function
    det_text,          \* argument of LanguageDetector.detect_language
    det_answer,        \* what detect_langs does for the stripped text
    det_result,        \* the dictionary detect_language returned
    uploaded_video,    \* video tab: whether the uploader holds a file
    analysis_type,     \* video tab: the option of the radio
    video_transcript,  \* video tab: widget state of key "video_transcript"
    facial_expressions,\* video tab: widget state of the multiselect
    video_screen,      \* video tab: what the last script run displayed
    video_history,     \* video tab: the interactions of the user so far
    recorder_page,     \* which page embeds the recorder
    browser_support,   \* whether the browser has a SpeechRecognition class
    recognition,       \* let recognition
    isRecording,       \* let isRecording
    start_disabled,    \* document.getElementById('start-btn').disabled
    stop_disabled,     \* document.getElementById('stop-btn').disabled
    status_html,       \* innerHTML of the status element
    transcript_html,   \* innerHTML of the transcript element
    finalTranscript,   \* let finalTranscript (simple_app.py)
    component_value,   \* the value last posted to Streamlit (voice_analyzer.py)
    engine,            \* the state of the browser's recognition service
    stop_calls         \* the values of isRecording at the recognition.stop() calls

vars == <<pc, text, classifier_answer, invoked, classifier_input, result,
          simple_text, simple_result, lang_text, lang_result,
          batch_app, uploaded_file, fault, text_column, next_row,
          batch_results, analyzed, ui, results_df, csv_data,
          requested_model, cuda_available, load_outcomes, self_model_name,
          self_device, self_classifier, loads, load_error, startup_error,
          calls, last_call, first_results,
          speech_fn, api_key, audio_data, language_code, http_outcome,
          requests_sent, speech_result, speech_raised,
          det_text, det_answer, det_result,
          uploaded_video, analysis_type, video_transcript, facial_expressions,
          video_screen, video_history,
          recorder_page, browser_support, recognition, isRecording,
          start_disabled, stop_disabled, status_html, transcript_html,
          finalTranscript, component_value, engine, stop_calls>>

analyzer_vars == <<text, classifier_answer, invoked, classifier_input, result>>

simple_vars == <<simple_text, simple_result>>

lang_vars == <<lang_text, lang_result>>

batch_vars == <<batch_app, uploaded_file, fault, text_column, next_row,
                batch_results, analyzed, ui, results_df, csv_data>>

(***************************************************************************)
(* Bounds of the model.                                                    *)
(***************************************************************************)
\* Longest list of entries the classifier returns.
MaxResults == 2

\* Denominator of the fixed-point scores: the score 1.0 is ScoreDen.
ScoreDen == 4

\* Most phrases a fallback text is made of.
MaxWords == 2

\* Most characters of a text given to detect_language_simple.
MaxChars == 3

\* Most data rows of an uploaded CSV.
MaxRows == 2

\* Most method calls made on one analyzer.
MaxCalls == 3

\* Most languages in a list detect_langs returns.
MaxDetections == 2

\* Most interactions of the user with the video tab.
MaxInteractions == 5

\* Most characters the recorder of simple_app.py accumulates in finalTranscript.
MaxTranscript == 6

(***************************************************************************)
(* Python values.                                                          *)
(***************************************************************************)
None == "None"

\* Truncation limit of analyze_sentiment.
MaxTextLen == 512

(***************************************************************************)
(* The state of an operation that is not running.                          *)
(***************************************************************************)
AnalyzerIdle ==
    /\ text = ""
    /\ classifier_answer = [kind |-> "raise", message |-> "model unavailable",
                            entries |-> <<>>]
    /\ invoked = FALSE
    /\ classifier_input = None
    /\ result = [sentiment |-> "NONE", confidence |-> 0,
                 all_scores |-> [order |-> <<>>, val |-> <<>>], error |-> None]

SimpleIdle ==
    /\ simple_text = ""
    /\ simple_result = [sentiment |-> "NONE", confidence |-> 0]

LangIdle ==
    /\ lang_text = <<>>
    /\ lang_result = [language |-> "NONE", confidence |-> [num |-> 0, den |-> 1]]

object_vars == <<requested_model, cuda_available, load_outcomes,
                 self_model_name, self_device, self_classifier, loads,
                 load_error, startup_error, calls, last_call, first_results>>

speech_vars == <<speech_fn, api_key, audio_data, language_code, http_outcome,
                 requests_sent, speech_result, speech_raised>>

detect_vars == <<det_text, det_answer, det_result>>

video_vars == <<uploaded_video, analysis_type, video_transcript,
                facial_expressions, video_screen, video_history>>

recorder_vars == <<recorder_page, browser_support, recognition, isRecording,
                   start_disabled, stop_disabled, status_html, transcript_html,
                   finalTranscript, component_value, engine, stop_calls>>

later_vars == <<detect_vars, video_vars, recorder_vars>>

\* No table, no download data.
NoTable == [shown |-> FALSE, columns |-> <<>>, rows |-> <<>>]

BatchIdle ==
    /\ batch_app = "simple"
    /\ uploaded_file = [parsed |-> FALSE, columns |-> <<>>, rows |-> <<>>]
    /\ fault = 0
    /\ text_column = None
    /\ next_row = 1
    /\ batch_results = <<>>
    /\ analyzed = <<>>
    /\ ui = <<>>
    /\ results_df = NoTable
    /\ csv_data = NoTable

\* No method has been called.
NoCall == [op |-> "none", texts |-> <<>>, values |-> <<>>,
           info |-> [model_name |-> "None", device |-> "None", loaded |-> FALSE]]

ObjectIdle ==
    /\ requested_model = None
    /\ cuda_available = FALSE
    /\ load_outcomes = <<TRUE, TRUE>>
    /\ self_model_name = None
    /\ self_device = None
    /\ self_classifier = None
    /\ loads = <<>>
    /\ load_error = None
    /\ startup_error = None
    /\ calls = 0
    /\ last_call = NoCall
    /\ first_results = <<>>

\* requests.post has not been called.
NoOutcome == [kind |-> "none", status |-> 0, body |-> "none"]

SpeechIdle ==
    /\ speech_fn = None
    /\ api_key = None
    /\ audio_data = None
    /\ language_code = None
    /\ http_outcome = NoOutcome
    /\ requests_sent = 0
    /\ speech_result = [error |-> "NONE"]
    /\ speech_raised = FALSE

DetectIdle ==
    /\ det_text = ""
    /\ det_answer = [kind |-> "list", message |-> "", langs |-> <<>>]
    /\ det_result = [language |-> "NONE"]

VideoIdle ==
    /\ uploaded_video = FALSE
    /\ analysis_type = "Combined Analysis"
    /\ video_transcript = ""
    /\ facial_expressions = <<"Neutral">>
    /\ video_screen = <<>>
    /\ video_history = <<>>

RecorderIdle ==
    /\ recorder_page = "simple_app"
    /\ browser_support = "webkitSpeechRecognition"
    /\ recognition = "undefined"
    /\ isRecording = FALSE
    /\ start_disabled = FALSE
    /\ stop_disabled = TRUE
    /\ status_html = ""
    /\ transcript_html = ""
    /\ finalTranscript = ""
    /\ component_value = ""
    /\ engine = "idle"
    /\ stop_calls = {}

LaterIdle == DetectIdle /\ VideoIdle /\ RecorderIdle

(***************************************************************************)
(* str methods.                                                            *)
(***************************************************************************)
Whitespace == {" ", "\t", "\n"}

UpperCaseLetters ==
    <<"A", "B", "C", "D", "E", "F", "G", "H", "I", "J", "K", "L", "M",
      "N", "O", "P", "Q", "R", "S", "T", "U", "V", "W", "X", "Y", "Z">>

LowerCaseLetters ==
    <<"a", "b", "c", "d", "e", "f", "g", "h", "i", "j", "k", "l", "m",
      "n", "o", "p", "q", "r", "s", "t", "u", "v", "w", "x", "y", "z">>

\* Index of character c in the alphabet letters, 0 when it is not in it.
LetterIndex(letters, c) ==
    IF \E i \in 1..Len(letters) : letters[i] = c
    THEN CHOOSE i \in 1..Len(letters) : letters[i] = c
    ELSE 0

UpperChar(c) ==
    LET i == LetterIndex(LowerCaseLetters, c)
    IN  IF i = 0 THEN c ELSE UpperCaseLetters[i]

LowerChar(c) ==
    LET i == LetterIndex(UpperCaseLetters, c)
    IN  IF i = 0 THEN c ELSE LowerCaseLetters[i]

\* Mutant: the label is compared as the classifier spelled it.
Upper_Missing(s) == s

\* str.upper()
RECURSIVE Upper(_)
Upper(s) ==
    IF s = "" THEN ""
    ELSE UpperChar(SubSeq(s, 1, 1)) \o Upper(SubSeq(s, 2, Len(s)))

\* str.lower()
RECURSIVE Lower(_)
Lower(s) ==
    IF s = "" THEN ""
    ELSE LowerChar(SubSeq(s, 1, 1)) \o Lower(SubSeq(s, 2, Len(s)))

RECURSIVE LStrip(_)
LStrip(s) ==
    IF s # "" /\ SubSeq(s, 1, 1) \in Whitespace
    THEN LStrip(SubSeq(s, 2, Len(s)))
    ELSE s

RECURSIVE RStrip(_)
RStrip(s) ==
    IF s # "" /\ SubSeq(s, Len(s), Len(s)) \in Whitespace
    THEN RStrip(SubSeq(s, 1, Len(s) - 1))
    ELSE s

\* str.strip()
Strip(s) == RStrip(LStrip(s))

\* Mutant: the word matches whole words only.
Contains_WholeWord(s, word) ==
    \E i \in 1..(Len(s) - Len(word) + 1) :
        /\ SubSeq(s, i, i + Len(word) - 1) = word
        /\ i = 1 \/ SubSeq(s, i - 1, i - 1) = " "
        /\ i + Len(word) - 1 = Len(s)
              \/ SubSeq(s, i + Len(word), i + Len(word)) = " "

\* word in s (substring containment)
Contains(s, word) ==
    \E i \in 1..(Len(s) - Len(word) + 1) :
        SubSeq(s, i, i + Len(word) - 1) = word

\* label in [...]
InList(label, list) == \E i \in 1..Len(list) : list[i] = label

RECURSIVE Repeat(_, _)
Repeat(s, n) == IF n = 0 THEN "" ELSE s \o Repeat(s, n - 1)

(***************************************************************************)
(* dict with insertion order.                                              *)
(***************************************************************************)
EmptyDict == [order |-> <<>>, val |-> <<>>]

DictHas(d, k) == \E i \in 1..Len(d.order) : d.order[i] = k

DictIndex(d, k) == CHOOSE i \in 1..Len(d.order) : d.order[i] = k

\* d[k]
DictAt(d, k) == d.val[DictIndex(d, k)]

\* d.get(k, default)
DictGet(d, k, default) == IF DictHas(d, k) THEN DictAt(d, k) ELSE default

\* d[k] = v: a new key goes last, an existing key keeps its place
DictSet(d, k, v) ==
    IF DictHas(d, k)
    THEN [d EXCEPT !.val[DictIndex(d, k)] = v]
    ELSE [order |-> Append(d.order, k), val |-> Append(d.val, v)]

(***************************************************************************)
(* SentimentAnalyzer._normalize_sentiment_labels                           *)
(***************************************************************************)
PositiveLabels == <<"POSITIVE", "POS", "LABEL_2", "5 STARS", "4 STARS">>

NegativeLabels == <<"NEGATIVE", "NEG", "LABEL_0", "1 STAR", "2 STARS">>

NeutralLabels == <<"NEUTRAL", "NEU", "LABEL_1", "3 STARS">>

\* The order of the loop that adds the missing categories.
CanonicalOrder == <<"POSITIVE", "NEGATIVE", "NEUTRAL">>

\* Mutant: the substring rule asks for "neg" before "pos".
NormalizedKey_NegFirst(label) ==
    IF InList(label, PositiveLabels) THEN "POSITIVE"
    ELSE IF InList(label, NegativeLabels) THEN "NEGATIVE"
    ELSE IF InList(label, NeutralLabels) THEN "NEUTRAL"
    ELSE IF Contains(Lower(label), "negative") \/ Contains(Lower(label), "neg")
         THEN "NEGATIVE"
    ELSE IF Contains(Lower(label), "positive") \/ Contains(Lower(label), "pos")
         THEN "POSITIVE"
    ELSE "NEUTRAL"

\* The if/elif chain of the loop body: the category that the upper-cased
\* label adds its score to.
NormalizedKey(label) ==
    IF InList(label, PositiveLabels) THEN "POSITIVE"
    ELSE IF InList(label, NegativeLabels) THEN "NEGATIVE"
    ELSE IF InList(label, NeutralLabels) THEN "NEUTRAL"
    ELSE IF Contains(Lower(label), "positive") \/ Contains(Lower(label), "pos")
         THEN "POSITIVE"
    ELSE IF Contains(Lower(label), "negative") \/ Contains(Lower(label), "neg")
         THEN "NEGATIVE"
    ELSE "NEUTRAL"

\* Mutant: a missing score counts as 0 instead of raising KeyError.
NormalizeEntry_DefaultScore(scores, entry) ==
    IF "label" \notin DOMAIN entry
    THEN [raised |-> TRUE, value |-> "'label'"]
    ELSE LET key == NormalizedKey(Upper(entry.label))
             score == IF "score" \in DOMAIN entry THEN entry.score ELSE 0
         IN  [raised |-> FALSE,
              value |-> DictSet(scores, key, DictGet(scores, key, 0) + score)]

\* Mutant: the score replaces the accumulated value instead of adding to it.
NormalizeEntry_Overwrite(scores, entry) ==
    IF "label" \notin DOMAIN entry
    THEN [raised |-> TRUE, value |-> "'label'"]
    ELSE IF "score" \notin DOMAIN entry
    THEN [raised |-> TRUE, value |-> "'score'"]
    ELSE LET key == NormalizedKey(Upper(entry.label))
         IN  [raised |-> FALSE, value |-> DictSet(scores, key, entry.score)]

\* One iteration of "for result in results": the accumulated dict, or the
\* KeyError of an entry without 'label' or without 'score'.
NormalizeEntry(scores, entry) ==
    IF "label" \notin DOMAIN entry
    THEN [raised |-> TRUE, value |-> "'label'"]
    ELSE IF "score" \notin DOMAIN entry
    THEN [raised |-> TRUE, value |-> "'score'"]
    ELSE LET key == NormalizedKey(Upper(entry.label))
         IN  [raised |-> FALSE,
              value |-> DictSet(scores, key, DictGet(scores, key, 0) + entry.score)]

RECURSIVE NormalizeLoop(_, _, _)
NormalizeLoop(results, i, scores) ==
    IF i > Len(results) THEN [raised |-> FALSE, value |-> scores]
    ELSE LET step == NormalizeEntry(scores, results[i])
         IN  IF step.raised THEN step
             ELSE NormalizeLoop(results, i + 1, step.value)

\* Mutant: the missing categories are not added.
EnsureCategories_Skipped(scores, i) == scores

\* "Ensure all three categories exist".
RECURSIVE EnsureCategories(_, _)
EnsureCategories(scores, i) ==
    IF i > Len(CanonicalOrder) THEN scores
    ELSE EnsureCategories(
             IF DictHas(scores, CanonicalOrder[i]) THEN scores
             ELSE DictSet(scores, CanonicalOrder[i], 0),
             i + 1)

_normalize_sentiment_labels(results) ==
    LET looped == NormalizeLoop(results, 1, EmptyDict)
    IN  IF looped.raised THEN looped
        ELSE [raised |-> FALSE, value |-> EnsureCategories(looped.value, 1)]

(***************************************************************************)
(* SentimentAnalyzer.analyze_sentiment                                     *)
(***************************************************************************)
\* Mutant: only the empty string counts as blank.
IsBlank_EmptyOnly(t) == t = ""

\* not text or not text.strip()
IsBlank(t) == t = "" \/ Strip(t) = ""

\* Mutant: the long text is passed on whole.
PrepareText_Untruncated(t) == Strip(t)

\* text.strip(), then text[:512] when longer than 512
PrepareText(t) ==
    LET stripped == Strip(t)
    IN  IF Len(stripped) > MaxTextLen THEN SubSeq(stripped, 1, MaxTextLen)
        ELSE stripped

\* Mutant: min instead of max.
MaxItem_Min(d) ==
    CHOOSE i \in 1..Len(d.order) :
        /\ \A j \in 1..Len(d.order) : d.val[j] >= d.val[i]
        /\ \A j \in 1..(i - 1) : d.val[j] > d.val[i]

\* Mutant: among equal maxima the last one wins.
MaxItem_LastOfTies(d) ==
    CHOOSE i \in 1..Len(d.order) :
        /\ \A j \in 1..Len(d.order) : d.val[j] <= d.val[i]
        /\ \A j \in (i + 1)..Len(d.order) : d.val[j] < d.val[i]

\* max(d.items(), key=lambda x: x[1]): the index, in insertion order, of the
\* first item no other item exceeds.
MaxItem(d) ==
    CHOOSE i \in 1..Len(d.order) :
        /\ \A j \in 1..Len(d.order) : d.val[j] <= d.val[i]
        /\ \A j \in 1..(i - 1) : d.val[j] < d.val[i]

\* max_sentiment[1] * 100, in the fixed-point unit of the scores
Percentage(score) == score * 100

NeutralOnlyScores ==
    [order |-> <<"POSITIVE", "NEGATIVE", "NEUTRAL">>, val |-> <<0, 0, ScoreDen>>]

EmptyTextResult ==
    [sentiment |-> "NEUTRAL", confidence |-> 0,
     all_scores |-> NeutralOnlyScores, error |-> "Empty text provided"]

\* The except branch.
ErrorResult(message) ==
    [sentiment |-> "NEUTRAL", confidence |-> 0,
     all_scores |-> NeutralOnlyScores,
     error |-> "Error analyzing sentiment: " \o message]

\* The try block after the classifier has answered `outcome`:
\* kind "raise" is an exception of the call, "flat" the list of entries
\* itself, "nested" the list wrapped in an outer list.
HandleOutcome(outcome) ==
    IF outcome.kind = "raise" THEN ErrorResult(outcome.message)
    ELSE IF outcome.kind = "flat" /\ Len(outcome.entries) = 0
    THEN ErrorResult("list index out of range")
    ELSE LET normalized == _normalize_sentiment_labels(outcome.entries)
         IN  IF normalized.raised THEN ErrorResult(normalized.value)
             ELSE IF Len(normalized.value.order) = 0
             THEN ErrorResult("max() arg is an empty sequence")
             ELSE LET scores == normalized.value
                      best == MaxItem(scores)
                  IN  [sentiment |-> scores.order[best],
                       confidence |-> Percentage(scores.val[best]),
                       all_scores |-> scores,
                       error |-> None]

(***************************************************************************)
(* The inputs of the analyzer: texts, and what the classifier answers.     *)
(***************************************************************************)
LongText == "  " \o Repeat("good ", 103)

Texts == {"", " \t\n", "\n I love it \t", LongText}

\* The label vocabularies of the classifiers: each model emits its own.
LabelVocabularies ==
    { {"POSITIVE", "NEGATIVE", "NEUTRAL"},
      {"positive", "negative", "neutral"},
      {"POS", "NEG", "NEU"},
      {"pos", "neg", "neu"},
      {"LABEL_0", "LABEL_1", "LABEL_2"},
      {"label_0", "label_1", "label_2"},
      {"1 STAR", "2 STARS", "3 STARS", "4 STARS", "5 STARS"},
      {"1 star", "2 stars", "3 stars", "4 stars", "5 stars"},
      {"Positive", "nEg", "Label_1", "3 Stars"},
      {"very_positive", "Negated", "neg_pos", "mixed"} }

Scores == {1, 2}

\* The entries a classifier with vocabulary `vocabulary` may return: well
\* formed ones, one without 'label' and one without 'score'.
Entries(vocabulary) ==
    [label : vocabulary, score : Scores]
        \cup {[score |-> 1]}
        \cup {[label |-> CHOOSE l \in vocabulary : TRUE]}

EntryLists(vocabulary) ==
    UNION {[1..n -> Entries(vocabulary)] : n \in 0..MaxResults}

ClassifierOutcomes ==
    {[kind |-> "raise", message |-> "model unavailable", entries |-> <<>>]}
        \cup {[kind |-> k, message |-> "", entries |-> es] :
                 k \in {"flat", "nested"},
                 es \in UNION {EntryLists(v) : v \in LabelVocabularies}}

\* No dictionary yet: analyze_sentiment has not returned.
NoResult ==
    [sentiment |-> "NONE", confidence |-> 0, all_scores |-> EmptyDict, error |-> None]

(***************************************************************************)
(* simple_sentiment_analysis, the rule-based fallback classifier.          *)
(***************************************************************************)
positive_words ==
    <<"good", "great", "excellent", "amazing", "wonderful", "fantastic",
      "awesome", "love", "like", "happy", "best", "perfect", "brilliant",
      "outstanding", "superb", "marvelous", "terrific", "fabulous",
      "accha", "achha", "bahut", "sundar", "khushi", "prasanna", "uttam",
      "shandar",
      "bagundi", "manchidi", "santosham", "bavundi", "chala", "bagunna">>

negative_words ==
    <<"bad", "terrible", "awful", "horrible", "hate", "dislike", "sad",
      "angry", "worst", "poor", "disappointing", "disgusting", "pathetic",
      "useless", "annoying", "frustrating",
      "bura", "kharab", "ganda", "dukh", "pareshani", "galat", "bekaar",
      "chedu", "daridram", "kastam", "badha", "kopam", "vishaadam">>

\* Mutant: every occurrence of a word counts.
RECURSIVE CountWords_Occurrences(_, _, _)
CountWords_Occurrences(words, t, i) ==
    IF i > Len(words) THEN 0
    ELSE Cardinality({k \in 1..(Len(t) - Len(words[i]) + 1) :
                         SubSeq(t, k, k + Len(words[i]) - 1) = words[i]})
         + CountWords_Occurrences(words, t, i + 1)

\* sum(1 for word in words if word in text)
RECURSIVE CountWords(_, _, _)
CountWords(words, t, i) ==
    IF i > Len(words) THEN 0
    ELSE (IF Contains(t, words[i]) THEN 1 ELSE 0) + CountWords(words, t, i + 1)

Min(a, b) == IF a < b THEN a ELSE b

\* Mutant: the confidence is not capped at 90.
SimpleVerdict_Uncapped(positive_count, negative_count) ==
    IF positive_count > negative_count
    THEN [sentiment |-> "POSITIVE",
          confidence |-> 60 + (positive_count - negative_count) * 10,
          positive_score |-> positive_count,
          negative_score |-> negative_count]
    ELSE IF negative_count > positive_count
    THEN [sentiment |-> "NEGATIVE",
          confidence |-> 60 + (negative_count - positive_count) * 10,
          positive_score |-> positive_count,
          negative_score |-> negative_count]
    ELSE [sentiment |-> "NEUTRAL",
          confidence |-> 50,
          positive_score |-> positive_count,
          negative_score |-> negative_count]

\* The if/elif/else on the two counts, and the returned dictionary.
SimpleVerdict(positive_count, negative_count) ==
    IF positive_count > negative_count
    THEN [sentiment |-> "POSITIVE",
          confidence |-> Min(90, 60 + (positive_count - negative_count) * 10),
          positive_score |-> positive_count,
          negative_score |-> negative_count]
    ELSE IF negative_count > positive_count
    THEN [sentiment |-> "NEGATIVE",
          confidence |-> Min(90, 60 + (negative_count - positive_count) * 10),
          positive_score |-> positive_count,
          negative_score |-> negative_count]
    ELSE [sentiment |-> "NEUTRAL",
          confidence |-> 50,
          positive_score |-> positive_count,
          negative_score |-> negative_count]

\* if not text
SimpleIsEmpty(t) == t = ""

simple_sentiment_analysis(t) ==
    IF SimpleIsEmpty(t)
    THEN [sentiment |-> "NEUTRAL", confidence |-> 0]
    ELSE LET lowered == Lower(t)
         IN  SimpleVerdict(CountWords(positive_words, lowered, 1),
                           CountWords(negative_words, lowered, 1))

(***************************************************************************)
(* The inputs of the fallback classifier: up to MaxWords phrases, joined   *)
(* by blanks, and the texts made of whitespace alone.                      *)
(***************************************************************************)
Phrases ==
    {"good", "Great and Excellent", "love the best", "ok",
     "bad", "badha", "dislike", "I HATE awful"}

RECURSIVE Join(_)
Join(ps) ==
    IF Len(ps) = 0 THEN ""
    ELSE IF Len(ps) = 1 THEN ps[1]
    ELSE ps[1] \o " " \o Join(Tail(ps))

SimpleTexts ==
    {Join(ps) : ps \in UNION {[1..n -> Phrases] : n \in 0..MaxWords}}
        \cup {" ", " \t\n"}

\* No dictionary yet: simple_sentiment_analysis has not returned.
NoSimpleResult == [sentiment |-> "NONE", confidence |-> 0]

(***************************************************************************)
(* detect_language_simple. A text is the sequence of the code points of    *)
(* its characters; a confidence is the exact quotient num / den.           *)
(***************************************************************************)
\* ord('A'), ord('Z'), ord('a'), ord('z')
UpperA == 65

UpperZ == 90

LowerA == 97

LowerZ == 122

\* The Devanagari block, U+0900..U+097F.
DevanagariFirst == 2304

DevanagariLast == 2431

\* The Telugu block, U+0C00..U+0C7F.
TeluguFirst == 3072

TeluguLast == 3199

\* c.isascii() and c.isalpha()
IsAsciiLetter(c) == (UpperA <= c /\ c <= UpperZ) \/ (LowerA <= c /\ c <= LowerZ)

\* Mutant: the last character of the block is left out.
IsDevanagari_Exclusive(c) == DevanagariFirst <= c /\ c < DevanagariLast

\* '\u0900' <= c <= '\u097F'
IsDevanagari(c) == DevanagariFirst <= c /\ c <= DevanagariLast

\* '\u0C00' <= c <= '\u0C7F'
IsTelugu(c) == TeluguFirst <= c /\ c <= TeluguLast

\* sum(1 for c in text if Is(c))
english_chars(t) == Cardinality({i \in 1..Len(t) : IsAsciiLetter(t[i])})

hindi_chars(t) == Cardinality({i \in 1..Len(t) : IsDevanagari(t[i])})

telugu_chars(t) == Cardinality({i \in 1..Len(t) : IsTelugu(t[i])})

\* (count / total_chars) * 100
Share(count, total_chars) == [num |-> count * 100, den |-> total_chars]

Zero == [num |-> 0, den |-> 1]

\* Mutant: the comparisons are not strict.
LanguageVerdict_NotStrict(english, hindi, telugu) ==
    LET total_chars == english + hindi + telugu
    IN  IF total_chars = 0
        THEN [language |-> "Unknown", confidence |-> Zero]
        ELSE IF hindi >= english /\ hindi >= telugu
        THEN [language |-> "Hindi", confidence |-> Share(hindi, total_chars)]
        ELSE IF telugu >= english /\ telugu >= hindi
        THEN [language |-> "Telugu", confidence |-> Share(telugu, total_chars)]
        ELSE [language |-> "English", confidence |-> Share(english, total_chars)]

\* The code after the three counts.
LanguageVerdict(english, hindi, telugu) ==
    LET total_chars == english + hindi + telugu
    IN  IF total_chars = 0
        THEN [language |-> "Unknown", confidence |-> Zero]
        ELSE IF hindi > english /\ hindi > telugu
        THEN [language |-> "Hindi", confidence |-> Share(hindi, total_chars)]
        ELSE IF telugu > english /\ telugu > hindi
        THEN [language |-> "Telugu", confidence |-> Share(telugu, total_chars)]
        ELSE [language |-> "English", confidence |-> Share(english, total_chars)]

detect_language_simple(t) ==
    IF Len(t) = 0
    THEN [language |-> "Unknown", confidence |-> Zero]
    ELSE LanguageVerdict(english_chars(t), hindi_chars(t), telugu_chars(t))

\* The characters of the texts: letters, a blank, a digit, a letter outside
\* ASCII, and the code points at and next to the ends of the two blocks.
LangAlphabet ==
    {UpperA, LowerZ, 32, 55, 233,
     DevanagariFirst - 1, DevanagariFirst, DevanagariLast, DevanagariLast + 1,
     TeluguFirst - 1, TeluguFirst, TeluguLast, TeluguLast + 1}

LangTexts == UNION {[1..n -> LangAlphabet] : n \in 0..MaxChars}

\* No dictionary yet: detect_language_simple has not returned.
NoLanguage == [language |-> "NONE", confidence |-> Zero]

(***************************************************************************)
(* LanguageDetector.                                                       *)
(***************************************************************************)
language_names ==
    [order |-> <<"en", "hi", "te", "ta", "kn", "ml", "bn", "gu", "mr", "pa",
                 "or", "as", "ur", "ne", "si", "my", "th", "vi", "id", "ms",
                 "tl", "zh-cn", "zh-tw", "ja", "ko", "ar", "fa", "he", "tr",
                 "ru", "uk", "bg", "hr", "cs", "da", "nl", "et", "fi", "fr",
                 "de", "el", "hu", "is", "ga", "it", "lv", "lt", "mk", "mt",
                 "no", "pl", "pt", "ro", "sk", "sl", "es", "sv", "cy">>,
     val |-> <<"English", "Hindi", "Telugu", "Tamil", "Kannada", "Malayalam",
               "Bengali", "Gujarati", "Marathi", "Punjabi", "Odia",
               "Assamese", "Urdu", "Nepali", "Sinhala", "Myanmar", "Thai",
               "Vietnamese", "Indonesian", "Malay", "Filipino",
               "Chinese (Simplified)", "Chinese (Traditional)", "Japanese",
               "Korean", "Arabic", "Persian", "Hebrew", "Turkish", "Russian",
               "Ukrainian", "Bulgarian", "Croatian", "Czech", "Danish",
               "Dutch", "Estonian", "Finnish", "French", "German", "Greek",
               "Hungarian", "Icelandic", "Irish", "Italian", "Latvian",
               "Lithuanian", "Macedonian", "Maltese", "Norwegian", "Polish",
               "Portuguese", "Romanian", "Slovak", "Slovenian", "Spanish",
               "Swedish", "Welsh">>]

supported_languages ==
    [order |-> <<"en", "hi", "te">>, val |-> <<"English", "Hindi", "Telugu">>]

\* self.language_names.get(code, f'Unknown ({code})')
LanguageName(code) == DictGet(language_names, code, "Unknown (" \o code \o ")")

\* Mutant: the failure is not reported.
UnknownLanguage_Silent(error) ==
    [language |-> "Unknown", language_code |-> "unknown", confidence |-> Zero,
     is_supported |-> FALSE, error |-> None]

\* The four returns that report no language.
UnknownLanguage(error) ==
    [language |-> "Unknown", language_code |-> "unknown", confidence |-> Zero,
     is_supported |-> FALSE, error |-> error]

\* language_probabilities[:3], each as a dictionary
TopDetections(langs) ==
    [i \in 1..Min(3, Len(langs)) |->
        [language |-> LanguageName(langs[i].lang),
         language_code |-> langs[i].lang,
         confidence |-> langs[i].prob]]

\* detect_language(text), detect_langs answering `detection`: kind "list"
\* is the list it returns, the other kinds are the exception it raises.
detect_language(t, detection) ==
    IF IsBlank(t) THEN UnknownLanguage("Empty text provided")
    ELSE IF detection.kind = "LangDetectError"
    THEN UnknownLanguage("Language detection error: " \o detection.message)
    ELSE IF detection.kind = "Exception"
    THEN UnknownLanguage("Unexpected error in language detection: "
                             \o detection.message)
    ELSE IF Len(detection.langs) = 0
    THEN UnknownLanguage("Could not detect language")
    ELSE LET top_language == detection.langs[1]
         IN  [language |-> LanguageName(top_language.lang),
              language_code |-> top_language.lang,
              confidence |-> top_language.prob,
              is_supported |-> DictHas(supported_languages, top_language.lang),
              all_detections |-> TopDetections(detection.langs),
              error |-> None]

(***************************************************************************)
(* The libraries of a batch run: what detect_langs and the classifier      *)
(* answer for a text. Both are deterministic functions of the text.        *)
(***************************************************************************)
Digits == <<"0", "1", "2", "3", "4", "5", "6", "7", "8", "9">>

IsDigits(s) == s # "" /\ \A i \in 1..Len(s) : LetterIndex(Digits, SubSeq(s, i, i)) # 0

Detected(langs) == [kind |-> "list", message |-> "", langs |-> langs]

\* langdetect.detect_langs(text)
detect_langs(s) ==
    IF IsDigits(s)
    THEN [kind |-> "LangDetectError", message |-> "No features in text.",
          langs |-> <<>>]
    ELSE IF Contains(s, "love")
    THEN Detected(<<[lang |-> "en", prob |-> [num |-> 99, den |-> 100]]>>)
    ELSE IF s = "bad"
    THEN Detected(<<[lang |-> "so", prob |-> [num |-> 57, den |-> 100]],
                    [lang |-> "en", prob |-> [num |-> 43, den |-> 100]]>>)
    ELSE IF s = "nan"
    THEN Detected(<<[lang |-> "tl", prob |-> [num |-> 99, den |-> 100]]>>)
    ELSE Detected(<<[lang |-> "en", prob |-> [num |-> 85, den |-> 100]],
                    [lang |-> "fr", prob |-> [num |-> 14, den |-> 100]]>>)

Scored(negative, neutral, positive) ==
    [kind |-> "nested", message |-> "",
     entries |-> <<[label |-> "negative", score |-> negative],
                   [label |-> "neutral", score |-> neutral],
                   [label |-> "positive", score |-> positive]>>]

\* self.classifier(text), a pipeline with return_all_scores=True
classifier(s) ==
    IF s = "nan"
    THEN [kind |-> "raise", message |-> "index out of range in self",
          entries |-> <<>>]
    ELSE IF Contains(s, "love") THEN Scored(0, 1, ScoreDen - 1)
    ELSE IF IsDigits(s) THEN Scored(1, ScoreDen - 2, 1)
    ELSE Scored(ScoreDen - 1, 1, 0)

\* __init__'s default model_name, and the model of the second attempt.
DefaultModel == "cardiffnlp/twitter-xlm-roberta-base-sentiment"

FallbackModel == "nlptown/bert-base-multilingual-uncased-sentiment"

\* What the fallback model answers: stars.
Stars(one, three, five) ==
    [kind |-> "nested", message |-> "",
     entries |-> <<[label |-> "1 star", score |-> one],
                   [label |-> "2 stars", score |-> 0],
                   [label |-> "3 stars", score |-> three],
                   [label |-> "4 stars", score |-> 0],
                   [label |-> "5 stars", score |-> five]>>]

\* The pipeline loaded for `model`, called with a text.
Pipeline(model, s) ==
    IF model # FallbackModel THEN classifier(s)
    ELSE IF s = "nan"
    THEN [kind |-> "raise", message |-> "index out of range in self",
          entries |-> <<>>]
    ELSE IF Contains(s, "love") THEN Stars(0, 1, ScoreDen - 1)
    ELSE Stars(ScoreDen - 1, 1, 0)

\* self.classifier(text): calling None raises TypeError.
CallClassifier(loaded, s) ==
    IF loaded = None
    THEN [kind |-> "raise", message |-> "'NoneType' object is not callable",
          entries |-> <<>>]
    ELSE Pipeline(loaded, s)

\* analyze_sentiment(text) of an analyzer whose self.classifier is `loaded`
analyze_sentiment(loaded, t) ==
    IF IsBlank(t) THEN EmptyTextResult
    ELSE HandleOutcome(CallClassifier(loaded, PrepareText(t)))

\* analyze_batch(texts)
analyze_batch(loaded, texts) ==
    [i \in 1..Len(texts) |-> analyze_sentiment(loaded, texts[i])]

\* get_model_info()
get_model_info(model_name, device, loaded) ==
    [model_name |-> model_name, device |-> device, loaded |-> loaded # None]

\* Mutant: a call that ended in an error drops the pipeline.
ClassifierAfterCall_ResetOnError(loaded, values) ==
    IF \E i \in 1..Len(values) :
          values[i].error \notin {None, "Empty text provided"}
    THEN None
    ELSE loaded

\* self.classifier after a method call: no method assigns it.
ClassifierAfterCall(loaded, values) == loaded

\* "cuda" if torch.cuda.is_available() else "cpu"
Device(cuda) == IF cuda THEN "cuda" ELSE "cpu"

\* The exception of the n-th pipeline() call that fails.
LoadFailure(n) ==
    IF n = 1 THEN "requested model cannot be loaded"
    ELSE "fallback model cannot be loaded"

\* _load_model after the first pipeline() call
AfterRequestedLoad(ok) == IF ok THEN "constructed" ELSE "fallback"

\* Mutant: the failure of the fallback is printed and not raised.
AfterFallbackLoad_Swallowed(ok) == "constructed"

\* _load_model after the second pipeline() call
AfterFallbackLoad(ok) == IF ok THEN "constructed" ELSE "raised"

\* Mutant: the fallback that loads gives the analyzer its name.
ModelNameAfterFallback_Renamed(model_name, ok) ==
    IF ok THEN FallbackModel ELSE model_name

\* _load_model, except branch: nothing is assigned to self.model_name.
ModelNameAfterFallback(model_name, ok) == model_name

\* The texts and the lists of texts the methods are called with.
CallTexts == {"I love it", "bad", "nan", " "}

CallBatches == {<<>>, <<"bad", " ">>, <<"nan", "I love it", "nan">>}

\* The first result of every text, after a call with `texts`.
Remember(memo, texts, values) ==
    [t \in DOMAIN memo |->
        IF memo[t] # NoResult THEN memo[t]
        ELSE IF \E i \in 1..Len(texts) : texts[i] = t
        THEN values[CHOOSE i \in 1..Len(texts) :
                       /\ texts[i] = t
                       /\ \A j \in 1..(i - 1) : texts[j] # t]
        ELSE NoResult]

(***************************************************************************)
(* pandas and str() in the batch loop. A cell is a string, an integer or   *)
(* the float NaN that read_csv puts in place of an empty field.            *)
(***************************************************************************)
StrCell(s) == [type |-> "str", str |-> s, int |-> 0]

IntCell(n) == [type |-> "int", str |-> "", int |-> n]

NaN == [type |-> "float", str |-> "nan", int |-> 0]

\* str(n) for n >= 0
RECURSIVE IntToStr(_)
IntToStr(n) ==
    IF n < 10 THEN Digits[n + 1]
    ELSE IntToStr(n \div 10) \o Digits[(n % 10) + 1]

\* Mutant: a cell that is no string becomes the empty text.
Str_StringsOnly(cell) == IF cell.type = "str" THEN cell.str ELSE ""

\* str(row[text_column])
Str(cell) ==
    IF cell.type = "str" THEN cell.str
    ELSE IF cell.type = "int" THEN IntToStr(cell.int)
    ELSE "nan"

\* ord(c)
Ord(c) ==
    IF LetterIndex(UpperCaseLetters, c) # 0
    THEN UpperA + LetterIndex(UpperCaseLetters, c) - 1
    ELSE IF LetterIndex(LowerCaseLetters, c) # 0
    THEN LowerA + LetterIndex(LowerCaseLetters, c) - 1
    ELSE IF LetterIndex(Digits, c) # 0
    THEN 48 + LetterIndex(Digits, c) - 1
    ELSE CASE c = " " -> 32
           [] c = "\t" -> 9
           [] c = "\n" -> 10
           [] c = "_" -> 95

\* The characters of a str, as detect_language_simple iterates over them.
CodePoints(s) == [i \in 1..Len(s) |-> Ord(SubSeq(s, i, i))]

\* 'text' in col.lower()
NamesText(col) == Contains(Lower(col), "text")

\* Mutant: every column passes the filter.
TextColumns_Unfiltered(columns) == columns

\* [col for col in df.columns if 'text' in col.lower()]
TextColumns(columns) == SelectSeq(columns, NamesText)

\* Mutant: the last column that names text.
ChosenColumn_Last(text_columns) == text_columns[Len(text_columns)]

\* text_columns[0]
ChosenColumn(text_columns) == text_columns[1]

\* The position of a column of the frame.
ColumnIndex(columns, name) ==
    CHOOSE i \in 1..Len(columns) : columns[i] = name

HasColumn(columns, name) == \E i \in 1..Len(columns) : columns[i] = name

\* pd.DataFrame(results): the columns are the keys of the dictionaries.
\* Mutant: the table of no rows has a Sentiment column all the same.
DataFrame_NamedColumns(rs) ==
    [shown |-> TRUE,
     columns |-> IF Len(rs) = 0 THEN <<"Original_Text", "Sentiment">>
                 ELSE rs[1].order,
     rows |-> [i \in 1..Len(rs) |-> rs[i].val]]

DataFrame(rs) ==
    [shown |-> TRUE,
     columns |-> IF Len(rs) = 0 THEN <<>> ELSE rs[1].order,
     rows |-> [i \in 1..Len(rs) |-> rs[i].val]]

\* len(results_df[results_df['Sentiment'] == label])
CountSentiment(frame, label) ==
    LET c == ColumnIndex(frame.columns, "Sentiment")
    IN  Cardinality({i \in 1..Len(frame.rows) : frame.rows[i][c] = label})

\* results_df.to_csv(index=False): a header line and one record per row;
\* None is written as the empty field.
to_csv(frame) ==
    [shown |-> TRUE,
     columns |-> frame.columns,
     rows |-> [i \in 1..Len(frame.rows) |->
                 [c \in 1..Len(frame.columns) |->
                     IF frame.columns[c] = "Error" /\ frame.rows[i][c] = None
                     THEN "" ELSE frame.rows[i][c]]]]

(***************************************************************************)
(* The row dictionaries of the two apps.                                   *)
(***************************************************************************)
FullColumns ==
    <<"Original_Text", "Detected_Language", "Language_Confidence",
      "Sentiment", "Sentiment_Confidence", "Positive_Score", "Neutral_Score",
      "Negative_Score", "Error">>

\* Mutant: a result that carries an error raises instead of giving a row.
FullRow_RaisesOnError(t) ==
    LET sentiment_result == analyze_sentiment(DefaultModel, t)
    IN  [raised |-> TRUE, message |-> sentiment_result.error,
         value |-> [order |-> FullColumns,
                    val |-> <<t, "", Zero, "ERROR", 0, 0, 0, 0,
                              sentiment_result.error>>]]

\* app.py: the dictionary appended for a text
FullRow(t) ==
    LET detected_language == detect_language(t, detect_langs(Strip(t)))
        sentiment_result == analyze_sentiment(DefaultModel, t)
        failed == sentiment_result.error # None
    IN  [raised |-> FALSE, message |-> "",
         value |->
           [order |-> FullColumns,
            val |-> <<t,
                      detected_language.language,
                      detected_language.confidence,
                      IF failed THEN "ERROR" ELSE sentiment_result.sentiment,
                      IF failed THEN 0 ELSE sentiment_result.confidence,
                      IF failed THEN 0
                      ELSE DictGet(sentiment_result.all_scores, "POSITIVE", 0),
                      IF failed THEN 0
                      ELSE DictGet(sentiment_result.all_scores, "NEUTRAL", 0),
                      IF failed THEN 0
                      ELSE DictGet(sentiment_result.all_scores, "NEGATIVE", 0),
                      IF failed THEN sentiment_result.error ELSE None>>]]

SimpleColumns ==
    <<"Original_Text", "Detected_Language", "Language_Confidence",
      "Sentiment", "Sentiment_Confidence", "Positive_Words", "Negative_Words">>

\* simple_app.py: the dictionary appended for a text; the result of
\* simple_sentiment_analysis for the empty text has no 'positive_score'.
SimpleRow(t) ==
    LET detected_language == detect_language_simple(CodePoints(t))
        sentiment_result == simple_sentiment_analysis(t)
    IN  IF "positive_score" \notin DOMAIN sentiment_result
        THEN [raised |-> TRUE, message |-> "'positive_score'",
              value |-> EmptyDict]
        ELSE [raised |-> FALSE, message |-> "",
              value |->
                [order |-> SimpleColumns,
                 val |-> <<t,
                           detected_language.language,
                           detected_language.confidence,
                           sentiment_result.sentiment,
                           sentiment_result.confidence,
                           sentiment_result.positive_score,
                           sentiment_result.negative_score>>]]

(***************************************************************************)
(* What the page shows.                                                    *)
(***************************************************************************)
Widget(widget, body) == [widget |-> widget, body |-> body, value |-> 0]

Metric(label, value) == [widget |-> "metric", body |-> label, value |-> value]

NoTextColumnError ==
    Widget("error", "No 'text' column found in the CSV file. Please ensure "
                        \o "your CSV has a column containing text data.")

ProcessingError(message) ==
    Widget("error", "Error processing CSV file: " \o message)

ReadingError(message) == Widget("error", "Error reading file: " \o message)

UsingColumn(column) ==
    Widget("info", "Using column '" \o column \o "' for analysis")

FilePreview ==
    <<Widget("subheader", "File Preview"), Widget("dataframe", "df.head()")>>

ResultsTable ==
    <<Widget("subheader", "Batch Analysis Results"),
      Widget("dataframe", "results_df")>>

DownloadButton == Widget("download_button", "Download Results as CSV")

\* What pd.read_csv raises for a file it cannot parse.
ParserError == "Error tokenizing data"

\* What a Streamlit or plotting call raises when it fails.
WidgetError == "widget call failed"

(***************************************************************************)
(* The uploaded files: a header, and up to MaxRows rows. The cells of one  *)
(* column are drawn freely, the other columns are filled by their names.   *)
(***************************************************************************)
Headers ==
    {[columns |-> <<"text">>, varied |-> 1],
     [columns |-> <<"id", "text">>, varied |-> 2],
     [columns |-> <<"Review_Text", "text">>, varied |-> 1],
     [columns |-> <<"Review_Text", "text">>, varied |-> 2],
     [columns |-> <<"label", "TEXT">>, varied |-> 2],
     [columns |-> <<"text_id", "text">>, varied |-> 2],
     [columns |-> <<"context", "comment">>, varied |-> 1],
     [columns |-> <<"id", "label">>, varied |-> 2]}

TextCells == {StrCell("I love it"), StrCell("bad"), StrCell(" "), NaN}

Filler(column, i) ==
    IF column \in {"id", "text_id"} THEN IntCell(i) ELSE StrCell("awful")

Frame(header, cells) ==
    [parsed |-> TRUE,
     columns |-> header.columns,
     rows |-> [i \in 1..Len(cells) |->
                 [c \in 1..Len(header.columns) |->
                     IF c = header.varied THEN cells[i]
                     ELSE Filler(header.columns[c], i)]]]

Unparsable == [parsed |-> FALSE, columns |-> <<>>, rows |-> <<>>]

UploadedFiles ==
    {Unparsable} \cup
    {Frame(h, cells) : h \in Headers,
                       cells \in UNION {[1..n -> TextCells] : n \in 0..MaxRows}}

(***************************************************************************)
(* google_speech. An exception is its class and its message; a response is *)
(* its status and its body. A body is named by what it holds.              *)
(***************************************************************************)
\* The classes below requests.exceptions.RequestException.
RequestExceptions == {"Timeout", "ConnectionError", "JSONDecodeError"}

\* if not api_key
KeyMissing(key) == key = None \/ key = ""

Raise(class, message) ==
    [raised |-> TRUE, class |-> class, message |-> message,
     value |-> [error |-> None]]

Return(value) ==
    [raised |-> FALSE, class |-> "", message |-> "", value |-> value]

\* response.text
BodyText(body) ==
    CASE body = "empty" -> ""
      [] body = "not_json" -> "<html>Service Unavailable</html>"
      [] body = "number" -> "5"
      [] body = "object" -> "{}"
      [] body = "empty_results" -> "{\"results\": []}"
      [] body = "result_without_alternatives" -> "{\"results\": [{}]}"
      [] body = "empty_alternatives" -> "{\"results\": [{\"alternatives\": []}]}"
      [] body = "alternative_without_transcript" ->
             "{\"results\": [{\"alternatives\": [{\"confidence\": 0.5}]}]}"
      [] body = "transcript" ->
             "{\"results\": [{\"alternatives\": [{\"transcript\": \"hello\"}]}]}"
      [] body = "transcript_and_confidence" ->
             "{\"results\": [{\"alternatives\": [{\"transcript\": \"hello\", \"confidence\": 0.92}]}]}"
      [] body = "error_message" -> "{\"error\": {\"message\": \"API key not valid\"}}"
      [] body = "error_without_message" -> "{\"error\": {}}"
      [] body = "error_string" -> "{\"error\": \"denied\"}"

Bodies ==
    {"empty", "not_json", "number", "object", "empty_results",
     "result_without_alternatives", "empty_alternatives",
     "alternative_without_transcript", "transcript",
     "transcript_and_confidence", "error_message", "error_without_message",
     "error_string"}

\* response.json() raises for these bodies.
NotJson(body) == body \in {"empty", "not_json"}

\* 'results' in result and len(result['results']) > 0
HasResults(body) ==
    body \in {"result_without_alternatives", "empty_alternatives",
              "alternative_without_transcript", "transcript",
              "transcript_and_confidence"}

\* 'alternatives' in best_result and len(best_result['alternatives']) > 0
HasAlternatives(body) ==
    body \in {"alternative_without_transcript", "transcript",
              "transcript_and_confidence"}

\* The try block of transcribe_audio_google from the response on;
\* json_error is the class of the exception response.json() raises.
TranscribeResponse(response, language, json_error) ==
    LET body == response.body
    IN  IF response.status = 200
        THEN IF NotJson(body)
             THEN Raise(json_error, "Expecting value: line 1 column 1 (char 0)")
             ELSE IF body = "number"
             THEN Raise("TypeError", "argument of type 'int' is not iterable")
             ELSE IF ~HasResults(body)
             THEN Return([error |-> "No transcription results found"])
             ELSE IF ~HasAlternatives(body)
             THEN Return([error |-> "No speech detected in audio"])
             ELSE IF body = "alternative_without_transcript"
             THEN Raise("KeyError", "'transcript'")
             ELSE Return([text |-> "hello",
                          confidence |->
                              IF body = "transcript_and_confidence"
                              THEN [num |-> 92, den |-> 100] ELSE Zero,
                          language_detected |-> language,
                          error |-> None])
        ELSE LET error_msg == "API request failed: " \o IntToStr(response.status)
             IN  IF BodyText(body) = ""
                 THEN Return([error |-> error_msg])
                 ELSE IF NotJson(body) \/ body \in {"number", "error_string"}
                 THEN Return([error |-> error_msg \o " - " \o BodyText(body)])
                 ELSE IF body = "error_message"
                 THEN Return([error |-> error_msg \o " - API key not valid"])
                 ELSE Return([error |-> error_msg \o " - Unknown error"])

\* requests.post(...): the response, or the exception it raises.
Post(outcome) ==
    IF outcome.kind = "timeout"
    THEN Raise("Timeout", "Read timed out. (read timeout=30)")
    ELSE IF outcome.kind = "connection"
    THEN Raise("ConnectionError", "Failed to establish a new connection")
    ELSE Return([error |-> None])

\* Mutant: the handler of RequestException comes first.
TranscribeCatch_NetworkFirst(exception) ==
    IF exception.class \in RequestExceptions
    THEN Return([error |-> "Network error: " \o exception.message])
    ELSE IF exception.class = "Timeout"
    THEN Return([error |-> "Request timeout - audio file may be too large"])
    ELSE Return([error |-> "Unexpected error: " \o exception.message])

\* The three except clauses of transcribe_audio_google, in their order.
TranscribeCatch(exception) ==
    IF exception.class = "Timeout"
    THEN Return([error |-> "Request timeout - audio file may be too large"])
    ELSE IF exception.class \in RequestExceptions
    THEN Return([error |-> "Network error: " \o exception.message])
    ELSE Return([error |-> "Unexpected error: " \o exception.message])

\* What the function does with the outcome of a step of its try block.
TranscribeTry(step) == IF step.raised THEN TranscribeCatch(step) ELSE step

\* The try block of test_google_speech_api from the response on.
TestResponse(response) ==
    IF response.status \in {200, 400}
    THEN Return([accessible |-> TRUE, message |-> "API accessible"])
    ELSE Return([accessible |-> FALSE,
                 message |-> "API not accessible: "
                                 \o IntToStr(response.status)])

\* except Exception as e
TestCatch(exception) ==
    Return([accessible |-> FALSE,
            message |-> "Connection error: " \o exception.message])

TestTry(step) == IF step.raised THEN TestCatch(step) ELSE step

\* Mutant: a request that timed out is sent again, up to three times.
AfterPost_RetriesTimeout(outcome, sent) ==
    IF outcome.kind = "timeout" /\ sent < 3 THEN "request" ELSE "response"

\* Where the function is after requests.post: there is no loop around it.
AfterPost(outcome, sent) == "response"

\* The class of the exception of response.json(): a RequestException in
\* requests 2.27 and later, a ValueError before.
JsonErrors == {"JSONDecodeError", "ValueError"}

\* What requests.post can do.
HttpOutcomes ==
    {[kind |-> "timeout", status |-> 0, body |-> "none"],
     [kind |-> "connection", status |-> 0, body |-> "none"]}
        \cup {[kind |-> "response", status |-> s, body |-> b] :
                 s \in {200, 400, 403, 500}, b \in Bodies}

ApiKeys == {None, "", "AIzaSy-key"}

\* get_language_code_for_speech
get_language_code_for_speech(language_name) ==
    CASE language_name = "English" -> "en-US"
      [] language_name = "Hindi" -> "hi-IN"
      [] language_name = "Telugu" -> "te-IN"
      [] OTHER -> "en-US"

LanguageCodes ==
    {get_language_code_for_speech(n) : n \in {"English", "Hindi", "Unknown"}}

(***************************************************************************)
(* The inputs of detect_language: texts, and what detect_langs does.       *)
(***************************************************************************)
DetectTexts == {"", " \t\n", "I love it", " bad "}

\* Codes with and without a name, supported and not.
DetectedCodes == {"en", "hi", "te", "fr", "so"}

\* The i-th language of a list of codes, with a probability that decreases.
Probable(codes) ==
    [i \in 1..Len(codes) |->
        [lang |-> codes[i], prob |-> [num |-> 100 - 10 * i, den |-> 100]]]

DetectAnswers ==
    {[kind |-> "LangDetectError", message |-> "No features in text.",
      langs |-> <<>>],
     [kind |-> "Exception", message |-> "profiles not loaded", langs |-> <<>>]}
        \cup {Detected(Probable(codes)) :
                 codes \in UNION {[1..n -> DetectedCodes] : n \in 0..MaxDetections}}

(***************************************************************************)
(* Actions of the analyzer.                                                *)
(***************************************************************************)
\* A caller is about to call analyze_sentiment(text); classifier_answer is
\* what self.classifier does if this call reaches it.
AnalyzerInit ==
    /\ pc = "call"
    /\ text \in Texts
    /\ classifier_answer \in ClassifierOutcomes
    /\ invoked = FALSE
    /\ classifier_input = None
    /\ result = NoResult

\* result = analyzer.analyze_sentiment(text)
AnalyzeSentiment ==
    /\ pc = "call"
    /\ pc' = "returned"
    /\ IF IsBlank(text)
       THEN /\ invoked' = FALSE
            /\ classifier_input' = None
            /\ result' = EmptyTextResult
       ELSE /\ invoked' = TRUE
            /\ classifier_input' = PrepareText(text)
            /\ result' = HandleOutcome(classifier_answer)
    /\ UNCHANGED <<text, classifier_answer, simple_vars, lang_vars, batch_vars,
                   object_vars, speech_vars, later_vars>>

Init ==
    /\ AnalyzerInit
    /\ SimpleIdle
    /\ LangIdle
    /\ BatchIdle
    /\ ObjectIdle
    /\ SpeechIdle
    /\ LaterIdle

Next == AnalyzeSentiment

Spec == Init /\ [][Next]_vars

(***************************************************************************)
(* Actions of the fallback classifier.                                     *)
(***************************************************************************)
\* A caller is about to call simple_sentiment_analysis(simple_text).
InitSimple ==
    /\ pc = "call"
    /\ simple_text \in SimpleTexts
    /\ simple_result = NoSimpleResult
    /\ AnalyzerIdle
    /\ LangIdle
    /\ BatchIdle
    /\ ObjectIdle
    /\ SpeechIdle
    /\ LaterIdle

\* result = simple_sentiment_analysis(simple_text)
SimpleSentimentAnalysis ==
    /\ pc = "call"
    /\ pc' = "returned"
    /\ simple_result' = simple_sentiment_analysis(simple_text)
    /\ UNCHANGED <<simple_text, analyzer_vars, lang_vars, batch_vars,
                   object_vars, speech_vars, later_vars>>

NextSimple == SimpleSentimentAnalysis

SpecSimple == InitSimple /\ [][NextSimple]_vars

(***************************************************************************)
(* Actions of the fallback language detector.                              *)
(***************************************************************************)
\* A caller is about to call detect_language_simple(lang_text).
InitLang ==
    /\ pc = "call"
    /\ lang_text \in LangTexts
    /\ lang_result = NoLanguage
    /\ AnalyzerIdle
    /\ SimpleIdle
    /\ BatchIdle
    /\ ObjectIdle
    /\ SpeechIdle
    /\ LaterIdle

\* result = detect_language_simple(lang_text)
DetectLanguageSimple ==
    /\ pc = "call"
    /\ pc' = "returned"
    /\ lang_result' = detect_language_simple(lang_text)
    /\ UNCHANGED <<lang_text, analyzer_vars, simple_vars, batch_vars,
                   object_vars, speech_vars, later_vars>>

NextLang == DetectLanguageSimple

SpecLang == InitLang /\ [][NextLang]_vars

(***************************************************************************)
(* Actions of batch analysis. A run is the script run that follows the     *)
(* upload, then the run that follows the click on "Start Batch Analysis";  *)
(* the loop over the rows is one step per row.                             *)
(***************************************************************************)
\* A file has been uploaded. fault is the row whose progress update raises;
\* in the full app one more than the number of rows is the chart raising.
InitBatch ==
    /\ pc = "uploaded"
    /\ batch_app \in {"full", "simple"}
    /\ uploaded_file \in UploadedFiles
    /\ fault \in 0..(Len(uploaded_file.rows)
                        + (IF batch_app = "full" /\ Len(uploaded_file.rows) > 0
                           THEN 1 ELSE 0))
    /\ text_column = None
    /\ next_row = 1
    /\ batch_results = <<>>
    /\ analyzed = <<>>
    /\ ui = <<>>
    /\ results_df = NoTable
    /\ csv_data = NoTable
    /\ AnalyzerIdle
    /\ SimpleIdle
    /\ LangIdle
    /\ ObjectIdle
    /\ SpeechIdle
    /\ LaterIdle

\* Mutant: the handler shows the rows it has before the error.
Abort_ShowsPartial(shown, message) ==
    /\ pc' = "aborted"
    /\ ui' = shown \o ResultsTable \o <<ProcessingError(message)>>

\* except Exception as e: st.error(...); nothing after it runs.
Abort(shown, message) ==
    /\ pc' = "aborted"
    /\ ui' = Append(shown, ProcessingError(message))

\* simple_app.py, the run after the upload: read, preview, look for the
\* text column; the button has not been clicked.
SimpleUpload ==
    /\ pc = "uploaded"
    /\ batch_app = "simple"
    /\ IF ~uploaded_file.parsed
       THEN /\ Abort(ui, ParserError)
            /\ UNCHANGED text_column
       ELSE LET shown == <<Widget("success", "File uploaded")>> \o FilePreview
                text_columns == TextColumns(uploaded_file.columns)
            IN  IF Len(text_columns) = 0
                THEN /\ pc' = "rejected"
                     /\ ui' = Append(shown, NoTextColumnError)
                     /\ UNCHANGED text_column
                ELSE /\ pc' = "ready"
                     /\ text_column' = ChosenColumn(text_columns)
                     /\ ui' = Append(shown, UsingColumn(text_column'))
    /\ UNCHANGED <<batch_app, uploaded_file, fault, next_row, batch_results,
                   analyzed, results_df, csv_data>>
    /\ UNCHANGED <<analyzer_vars, simple_vars, lang_vars, object_vars,
                   speech_vars, later_vars>>

\* simple_app.py, the run after the click: the same page, then the loop.
SimpleStart ==
    /\ pc = "ready"
    /\ batch_app = "simple"
    /\ pc' = "loop"
    /\ batch_results' = <<>>
    /\ next_row' = 1
    /\ UNCHANGED <<batch_app, uploaded_file, fault, text_column, analyzed, ui,
                   results_df, csv_data>>
    /\ UNCHANGED <<analyzer_vars, simple_vars, lang_vars, object_vars,
                   speech_vars, later_vars>>

\* app.py, main: the run after the upload shows the preview.
FullUpload ==
    /\ pc = "uploaded"
    /\ batch_app = "full"
    /\ IF ~uploaded_file.parsed
       THEN /\ pc' = "aborted"
            /\ ui' = <<Widget("success", "File uploaded"),
                       ReadingError(ParserError)>>
       ELSE /\ pc' = "ready"
            /\ ui' = <<Widget("success", "File uploaded")>> \o FilePreview
    /\ UNCHANGED <<batch_app, uploaded_file, fault, text_column, next_row,
                   batch_results, analyzed, results_df, csv_data>>
    /\ UNCHANGED <<analyzer_vars, simple_vars, lang_vars, object_vars,
                   speech_vars, later_vars>>

\* app.py, analyze_batch_text up to the loop, in the run after the click.
FullStart ==
    /\ pc = "ready"
    /\ batch_app = "full"
    /\ LET text_columns == TextColumns(uploaded_file.columns)
       IN  IF Len(text_columns) = 0
           THEN /\ pc' = "rejected"
                /\ ui' = Append(ui, NoTextColumnError)
                /\ UNCHANGED text_column
           ELSE /\ pc' = "loop"
                /\ text_column' = ChosenColumn(text_columns)
                /\ ui' = Append(ui, UsingColumn(text_column'))
    /\ batch_results' = <<>>
    /\ next_row' = 1
    /\ UNCHANGED <<batch_app, uploaded_file, fault, analyzed, results_df,
                   csv_data>>
    /\ UNCHANGED <<analyzer_vars, simple_vars, lang_vars, object_vars,
                   speech_vars, later_vars>>

\* The text of the row the loop is at.
RowText ==
    Str(uploaded_file.rows[next_row]
            [ColumnIndex(uploaded_file.columns, text_column)])

\* One iteration of the loop: the row's text, the progress update, the two
\* calls, the dictionary. `row` is the dictionary the app builds.
ProcessRow(row) ==
    /\ pc = "loop"
    /\ next_row <= Len(uploaded_file.rows)
    /\ IF fault = next_row
       THEN /\ Abort(ui, WidgetError)
            /\ UNCHANGED <<next_row, batch_results, analyzed>>
       ELSE /\ analyzed' = Append(analyzed, RowText)
            /\ IF row.raised
               THEN /\ Abort(ui, row.message)
                    /\ UNCHANGED <<next_row, batch_results>>
               ELSE /\ batch_results' = Append(batch_results, row.value)
                    /\ next_row' = next_row + 1
                    /\ UNCHANGED <<pc, ui>>
    /\ UNCHANGED <<batch_app, uploaded_file, fault, text_column, results_df,
                   csv_data>>
    /\ UNCHANGED <<analyzer_vars, simple_vars, lang_vars, object_vars,
                   speech_vars, later_vars>>

SimpleProcessRow ==
    /\ batch_app = "simple"
    /\ pc = "loop"
    /\ next_row <= Len(uploaded_file.rows)
    /\ ProcessRow(SimpleRow(RowText))

FullProcessRow ==
    /\ batch_app = "full"
    /\ pc = "loop"
    /\ next_row <= Len(uploaded_file.rows)
    /\ ProcessRow(FullRow(RowText))

\* The three counts both apps show.
Summary(frame) ==
    <<Metric("Positive", CountSentiment(frame, "POSITIVE")),
      Metric("Neutral", CountSentiment(frame, "NEUTRAL")),
      Metric("Negative", CountSentiment(frame, "NEGATIVE"))>>

\* simple_app.py after the loop: table, summary, download.
SimpleFinish ==
    /\ batch_app = "simple"
    /\ pc = "loop"
    /\ next_row > Len(uploaded_file.rows)
    /\ results_df' = DataFrame(batch_results)
    /\ IF ~HasColumn(results_df'.columns, "Sentiment")
       THEN /\ Abort(ui \o ResultsTable, "'Sentiment'")
            /\ UNCHANGED csv_data
       ELSE /\ pc' = "completed"
            /\ csv_data' = to_csv(results_df')
            /\ ui' = ui \o ResultsTable \o Summary(results_df')
                        \o <<DownloadButton>>
    /\ UNCHANGED <<batch_app, uploaded_file, fault, text_column, next_row,
                   batch_results, analyzed>>
    /\ UNCHANGED <<analyzer_vars, simple_vars, lang_vars, object_vars,
                   speech_vars, later_vars>>

\* app.py after the loop: table, summary with the errors, chart, download.
FullFinish ==
    /\ batch_app = "full"
    /\ pc = "loop"
    /\ next_row > Len(uploaded_file.rows)
    /\ results_df' = DataFrame(batch_results)
    /\ IF ~HasColumn(results_df'.columns, "Sentiment")
       THEN /\ Abort(ui \o ResultsTable, "'Sentiment'")
            /\ UNCHANGED csv_data
       ELSE LET shown == ui \o ResultsTable \o Summary(results_df')
                            \o <<Metric("Errors",
                                        CountSentiment(results_df', "ERROR"))>>
            IN  IF Len(results_df'.rows) > 0 /\ fault = Len(results_df'.rows) + 1
                THEN /\ Abort(shown, WidgetError)
                     /\ UNCHANGED csv_data
                ELSE /\ pc' = "completed"
                     /\ csv_data' = to_csv(results_df')
                     /\ ui' = shown
                               \o (IF Len(results_df'.rows) > 0
                                   THEN <<Widget("plotly_chart",
                                                 "Sentiment Distribution")>>
                                   ELSE <<>>)
                               \o <<DownloadButton>>
    /\ UNCHANGED <<batch_app, uploaded_file, fault, text_column, next_row,
                   batch_results, analyzed>>
    /\ UNCHANGED <<analyzer_vars, simple_vars, lang_vars, object_vars,
                   speech_vars, later_vars>>

NextBatch ==
    \/ SimpleUpload
    \/ SimpleStart
    \/ SimpleProcessRow
    \/ SimpleFinish
    \/ FullUpload
    \/ FullStart
    \/ FullProcessRow
    \/ FullFinish

SpecBatch == InitBatch /\ [][NextBatch]_vars

(***************************************************************************)
(* Actions of a SentimentAnalyzer object: the constructor, step by step,   *)
(* then up to MaxCalls method calls.                                       *)
(***************************************************************************)
InitObject ==
    /\ pc = "new"
    /\ requested_model \in {DefaultModel, FallbackModel}
    /\ cuda_available \in BOOLEAN
    /\ load_outcomes \in {<<a, b>> : a \in BOOLEAN, b \in BOOLEAN}
    /\ self_model_name = None
    /\ self_device = None
    /\ self_classifier = None
    /\ loads = <<>>
    /\ load_error = None
    /\ startup_error = None
    /\ calls = 0
    /\ last_call = NoCall
    /\ first_results = [t \in CallTexts |-> NoResult]
    /\ AnalyzerIdle
    /\ SimpleIdle
    /\ LangIdle
    /\ BatchIdle
    /\ SpeechIdle
    /\ LaterIdle

\* __init__ up to the call of _load_model
Construct ==
    /\ pc = "new"
    /\ pc' = "loading"
    /\ self_model_name' = requested_model
    /\ self_device' = Device(cuda_available)
    /\ self_classifier' = None
    /\ UNCHANGED <<requested_model, cuda_available, load_outcomes, loads,
                   load_error, startup_error, calls, last_call, first_results>>
    /\ UNCHANGED <<analyzer_vars, simple_vars, lang_vars, batch_vars,
                   speech_vars, later_vars>>

\* _load_model: pipeline(model=self.model_name)
LoadRequested ==
    /\ pc = "loading"
    /\ loads' = Append(loads, self_model_name)
    /\ self_classifier' = IF load_outcomes[1] THEN self_model_name
                          ELSE self_classifier
    /\ pc' = AfterRequestedLoad(load_outcomes[1])
    /\ UNCHANGED <<requested_model, cuda_available, load_outcomes,
                   self_model_name, self_device, load_error, startup_error,
                   calls, last_call, first_results>>
    /\ UNCHANGED <<analyzer_vars, simple_vars, lang_vars, batch_vars,
                   speech_vars, later_vars>>

\* _load_model, except branch: pipeline(model="nlptown/..."), raise
LoadFallback ==
    /\ pc = "fallback"
    /\ loads' = Append(loads, FallbackModel)
    /\ self_classifier' = IF load_outcomes[2] THEN FallbackModel
                          ELSE self_classifier
    /\ pc' = AfterFallbackLoad(load_outcomes[2])
    /\ load_error' = IF pc' = "raised" THEN LoadFailure(2) ELSE None
    /\ self_model_name' = ModelNameAfterFallback(self_model_name,
                                                 load_outcomes[2])
    /\ UNCHANGED <<requested_model, cuda_available, load_outcomes,
                   self_device, startup_error, calls,
                   last_call, first_results>>
    /\ UNCHANGED <<analyzer_vars, simple_vars, lang_vars, batch_vars,
                   speech_vars, later_vars>>

\* app.py, main: the except branch around load_sentiment_analyzer()
MainStops ==
    /\ pc = "raised"
    /\ pc' = "stopped"
    /\ startup_error' = "Error loading models: " \o load_error
    /\ UNCHANGED <<requested_model, cuda_available, load_outcomes,
                   self_model_name, self_device, self_classifier, loads,
                   load_error, calls, last_call, first_results>>
    /\ UNCHANGED <<analyzer_vars, simple_vars, lang_vars, batch_vars,
                   speech_vars, later_vars>>

\* A method call that returned `values` for `texts`.
MethodCall(op, texts, values, info) ==
    /\ pc = "constructed"
    /\ calls < MaxCalls
    /\ calls' = calls + 1
    /\ last_call' = [op |-> op, texts |-> texts, values |-> values,
                     info |-> info]
    /\ first_results' = Remember(first_results, texts, values)
    /\ self_classifier' = ClassifierAfterCall(self_classifier, values)
    /\ UNCHANGED <<pc, requested_model, cuda_available, load_outcomes,
                   self_model_name, self_device, loads, load_error,
                   startup_error>>
    /\ UNCHANGED <<analyzer_vars, simple_vars, lang_vars, batch_vars,
                   speech_vars, later_vars>>

AnalyzeSentimentCall ==
    \E t \in CallTexts :
        MethodCall("analyze_sentiment", <<t>>,
                   <<analyze_sentiment(self_classifier, t)>>, NoCall.info)

AnalyzeBatchCall ==
    \E texts \in CallBatches :
        MethodCall("analyze_batch", texts,
                   analyze_batch(self_classifier, texts), NoCall.info)

GetModelInfoCall ==
    MethodCall("get_model_info", <<>>, <<>>,
               get_model_info(self_model_name, self_device, self_classifier))

NextObject ==
    \/ Construct
    \/ LoadRequested
    \/ LoadFallback
    \/ MainStops
    \/ AnalyzeSentimentCall
    \/ AnalyzeBatchCall
    \/ GetModelInfoCall

SpecObject == InitObject /\ [][NextObject]_vars

(***************************************************************************)
(* Actions of google_speech: one call of one of its two functions.         *)
(***************************************************************************)
InitSpeech ==
    /\ pc = "call"
    /\ speech_fn \in {"transcribe_audio_google", "test_google_speech_api"}
    /\ api_key \in ApiKeys
    /\ audio_data \in IF speech_fn = "transcribe_audio_google"
                      THEN {"bytes", None} ELSE {None}
    /\ language_code \in IF speech_fn = "transcribe_audio_google"
                         THEN LanguageCodes ELSE {None}
    /\ http_outcome \in HttpOutcomes
    /\ requests_sent = 0
    /\ speech_result = [error |-> "NONE"]
    /\ speech_raised = FALSE
    /\ AnalyzerIdle
    /\ SimpleIdle
    /\ LangIdle
    /\ BatchIdle
    /\ ObjectIdle
    /\ LaterIdle

\* The function ends: it returns step.value, or step's exception leaves it.
SpeechEnds(step) ==
    /\ pc' = "returned"
    /\ speech_raised' = step.raised
    /\ speech_result' = step.value

SpeechFrame ==
    /\ UNCHANGED <<speech_fn, api_key, audio_data, language_code, http_outcome>>
    /\ UNCHANGED <<analyzer_vars, simple_vars, lang_vars, batch_vars,
                   object_vars, later_vars>>

\* transcribe_audio_google up to requests.post: the key, base64.b64encode
TranscribeBegin ==
    /\ pc = "call"
    /\ speech_fn = "transcribe_audio_google"
    /\ IF KeyMissing(api_key)
       THEN SpeechEnds(Return([error |-> "Google Cloud API key not found"]))
       ELSE IF audio_data # "bytes"
       THEN SpeechEnds(TranscribeTry(
                Raise("TypeError", "a bytes-like object is required, not 'NoneType'")))
       ELSE /\ pc' = "request"
            /\ UNCHANGED <<speech_result, speech_raised>>
    /\ UNCHANGED requests_sent
    /\ SpeechFrame

\* requests.post(url, ..., timeout=30)
TranscribePost ==
    /\ pc = "request"
    /\ speech_fn = "transcribe_audio_google"
    /\ requests_sent' = requests_sent + 1
    /\ pc' = AfterPost(http_outcome, requests_sent')
    /\ UNCHANGED <<speech_result, speech_raised>>
    /\ SpeechFrame

\* transcribe_audio_google after requests.post
TranscribeHandle ==
    /\ pc = "response"
    /\ speech_fn = "transcribe_audio_google"
    /\ \E json_error \in JsonErrors :
          SpeechEnds(TranscribeTry(
              IF Post(http_outcome).raised THEN Post(http_outcome)
              ELSE TranscribeResponse(http_outcome, language_code, json_error)))
    /\ UNCHANGED requests_sent
    /\ SpeechFrame

\* test_google_speech_api up to requests.post
TestBegin ==
    /\ pc = "call"
    /\ speech_fn = "test_google_speech_api"
    /\ IF KeyMissing(api_key)
       THEN SpeechEnds(Return([accessible |-> FALSE,
                               message |-> "API key not found"]))
       ELSE /\ pc' = "request"
            /\ UNCHANGED <<speech_result, speech_raised>>
    /\ UNCHANGED requests_sent
    /\ SpeechFrame

\* requests.post(url, ..., timeout=10)
TestPost ==
    /\ pc = "request"
    /\ speech_fn = "test_google_speech_api"
    /\ requests_sent' = requests_sent + 1
    /\ pc' = AfterPost(http_outcome, requests_sent')
    /\ UNCHANGED <<speech_result, speech_raised>>
    /\ SpeechFrame

\* test_google_speech_api after requests.post
TestHandle ==
    /\ pc = "response"
    /\ speech_fn = "test_google_speech_api"
    /\ SpeechEnds(TestTry(IF Post(http_outcome).raised THEN Post(http_outcome)
                          ELSE TestResponse(http_outcome)))
    /\ UNCHANGED requests_sent
    /\ SpeechFrame

NextSpeech ==
    \/ TranscribeBegin
    \/ TranscribePost
    \/ TranscribeHandle
    \/ TestBegin
    \/ TestPost
    \/ TestHandle

SpecSpeech == InitSpeech /\ [][NextSpeech]_vars

(***************************************************************************)
(* Actions of the language detector.                                       *)
(***************************************************************************)
\* A caller is about to call detect_language(det_text).
InitDetect ==
    /\ pc = "call"
    /\ det_text \in DetectTexts
    /\ det_answer \in DetectAnswers
    /\ det_result = [language |-> "NONE"]
    /\ AnalyzerIdle
    /\ SimpleIdle
    /\ LangIdle
    /\ BatchIdle
    /\ ObjectIdle
    /\ SpeechIdle
    /\ VideoIdle
    /\ RecorderIdle

\* result = language_detector.detect_language(det_text)
DetectLanguage ==
    /\ pc = "call"
    /\ pc' = "returned"
    /\ det_result' = detect_language(det_text, det_answer)
    /\ UNCHANGED <<det_text, det_answer>>
    /\ UNCHANGED <<analyzer_vars, simple_vars, lang_vars, batch_vars,
                   object_vars, speech_vars, video_vars, recorder_vars>>

NextDetect == DetectLanguage

SpecDetect == InitDetect /\ [][NextDetect]_vars

(***************************************************************************)
(* The video tab of the fallback app.  Streamlit runs the script again     *)
(* after every interaction of the user; st.button returns True only in the *)
(* run its click caused; the state of a widget the run did not render is   *)
(* discarded, and the widget starts from its default when rendered again.  *)
(* The name and the size of the file and the duration selectbox have no    *)
(* part in the analysis and are left out.                                  *)
(***************************************************************************)
AudioOnly == "Audio Only (Speech Sentiment)"

VisualOnly == "Visual Only (Facial Expression)"

Combined == "Combined Analysis"

\* f"{confidence:.1f}" of an int
OneDecimal(n) == IntToStr(n) \o ".0"

\* f"{confidence:.1f}" of count / total * 100: rounded to tenths, half to even
FormatShare(c) ==
    LET q == (c.num * 10) \div c.den
        r == (c.num * 10) % c.den
        tenths == IF 2 * r > c.den \/ (2 * r = c.den /\ q % 2 = 1)
                  THEN q + 1 ELSE q
    IN  IntToStr(tenths \div 10) \o "." \o IntToStr(tenths % 10)

\* The if/elif/else that shows a sentiment as st.success, st.error or st.warning.
SentimentWidget(label, sentiment, confidence) ==
    Widget(IF sentiment = "POSITIVE" THEN "success"
           ELSE IF sentiment = "NEGATIVE" THEN "error" ELSE "warning",
           "**" \o label \o ":** " \o sentiment \o " (" \o confidence
               \o "% confidence)")

\* The audio section of a run in which the button is True.
AudioSection(transcript) ==
    <<Widget("subheader", "Audio Analysis Results"),
      Widget("warning", "Audio extraction from video requires additional setup. "
                 \o "Please provide the transcript of the spoken content below."),
      Widget("text_area", "Transcribe the audio from your video:")>>
    \o (IF transcript = "" THEN <<>>
        ELSE LET audio_language == detect_language_simple(CodePoints(transcript))
                 audio_sentiment == simple_sentiment_analysis(transcript)
             IN  <<Widget("info", "**Audio Language:** " \o audio_language.language
                              \o " (" \o FormatShare(audio_language.confidence)
                              \o "% confidence)"),
                   SentimentWidget("Audio Sentiment", audio_sentiment.sentiment,
                                   OneDecimal(audio_sentiment.confidence))>>)

positive_expressions == <<"Happy/Smiling", "Surprised">>

negative_expressions == <<"Sad/Frowning", "Angry", "Fearful", "Disgusted">>

\* sum(1 for expr in facial_expressions if expr in expressions)
CountExpressions(selected, expressions) ==
    Cardinality({i \in 1..Len(selected) : InList(selected[i], expressions)})

\* facial_sentiment and facial_confidence
FacialVerdict(selected) ==
    LET positive_count == CountExpressions(selected, positive_expressions)
        negative_count == CountExpressions(selected, negative_expressions)
    IN  IF positive_count > negative_count
        THEN [sentiment |-> "POSITIVE",
              confidence |-> Min(85, 60 + positive_count * 15)]
        ELSE IF negative_count > positive_count
        THEN [sentiment |-> "NEGATIVE",
              confidence |-> Min(85, 60 + negative_count * 15)]
        ELSE [sentiment |-> "NEUTRAL", confidence |-> 70]

\* The visual section of a run in which the button is True.
VisualSection(selected) ==
    <<Widget("subheader", "Facial Expression Analysis"),
      Widget("warning", "Facial expression analysis requires computer vision "
                 \o "libraries. Please describe the general facial expressions "
                 \o "observed in the video."),
      Widget("multiselect", "Select observed facial expressions:")>>
    \o (IF selected = <<>> THEN <<>>
        ELSE <<SentimentWidget("Facial Sentiment", FacialVerdict(selected).sentiment,
                               OneDecimal(FacialVerdict(selected).confidence))>>)

\* sentiment_scores[...]
SentimentScore(sentiment) ==
    CASE sentiment = "POSITIVE" -> 1
      [] sentiment = "NEUTRAL" -> 0
      [] sentiment = "NEGATIVE" -> -1

Abs(n) == IF n < 0 THEN -n ELSE n

\* The combined section; combined_score is kept in tenths (6 and 4 are the
\* weights 0.6 and 0.4).
CombinedSection(transcript, selected) ==
    LET audio_score ==
            SentimentScore(simple_sentiment_analysis(transcript).sentiment)
        visual_score == SentimentScore(FacialVerdict(selected).sentiment)
        combined_score == audio_score * 6 + visual_score * 4
        combined_sentiment == IF combined_score > 3 THEN "POSITIVE"
                              ELSE IF combined_score < -3 THEN "NEGATIVE"
                              ELSE "NEUTRAL"
        combined_confidence == IF combined_sentiment = "NEUTRAL" THEN 65
                               ELSE Min(90, 70 + Abs(combined_score) * 2)
    IN  <<Widget("subheader", "Combined Analysis Results"),
          SentimentWidget("Overall Video Sentiment", combined_sentiment,
                          OneDecimal(combined_confidence)),
          Widget("metric", "Audio Weight: 60%"),
          Widget("metric", "Visual Weight: 40%"),
          Widget("metric", "Combined Score: "
                     \o (IF combined_score < 0 THEN "-" ELSE "")
                     \o IntToStr(Abs(combined_score) \div 10) \o "."
                     \o IntToStr(Abs(combined_score) % 10) \o "0")>>

\* One run of the left column of the video tab.  `clicked` is what
\* st.button("Analyze Video") returns in this run.
VideoTab(uploaded, type, clicked, transcript, selected) ==
    <<Widget("file_uploader", "Choose a video file")>>
    \o (IF ~uploaded THEN <<>>
        ELSE <<Widget("video", "uploaded_video"),
               Widget("success", "Video uploaded"),
               Widget("radio", "Select analysis type:"),
               Widget("button", "Analyze Video")>>
             \o (IF ~clicked THEN <<>>
                 ELSE (IF type \in {AudioOnly, Combined}
                       THEN AudioSection(transcript) ELSE <<>>)
                      \o (IF type \in {VisualOnly, Combined}
                          THEN VisualSection(selected) ELSE <<>>)
                      \o (IF type = Combined /\ transcript # "" /\ selected # <<>>
                          THEN CombinedSection(transcript, selected) ELSE <<>>)))

\* What the user can type and select.
VideoTexts == {"I love it", "bad"}

ExpressionChoices == {<<>>, <<"Happy/Smiling">>, <<"Neutral", "Angry">>}

Interaction(op, t) == [op |-> op, text |-> t]

OnScreen(widget) ==
    \E i \in 1..Len(video_screen) : video_screen[i].widget = widget

InitVideo ==
    /\ pc = "session"
    /\ uploaded_video = FALSE
    /\ analysis_type = Combined
    /\ video_transcript = ""
    /\ facial_expressions = <<"Neutral">>
    /\ video_screen = VideoTab(FALSE, Combined, FALSE, "", <<"Neutral">>)
    /\ video_history = <<>>
    /\ AnalyzerIdle
    /\ SimpleIdle
    /\ LangIdle
    /\ BatchIdle
    /\ ObjectIdle
    /\ SpeechIdle
    /\ DetectIdle
    /\ RecorderIdle

\* The run of the script that follows an interaction: the widgets hold the
\* values given, and the widgets the run does not render lose their state.
VideoRun(uploaded, type, clicked, transcript, selected, interaction) ==
    /\ Len(video_history) < MaxInteractions
    /\ video_history' = Append(video_history, interaction)
    /\ video_screen' = VideoTab(uploaded, type, clicked, transcript, selected)
    /\ uploaded_video' = uploaded
    /\ analysis_type' = IF uploaded THEN type ELSE Combined
    /\ video_transcript' =
           IF uploaded /\ clicked /\ type \in {AudioOnly, Combined}
           THEN transcript ELSE ""
    /\ facial_expressions' =
           IF uploaded /\ clicked /\ type \in {VisualOnly, Combined}
           THEN selected ELSE <<"Neutral">>
    /\ UNCHANGED <<pc, analyzer_vars, simple_vars, lang_vars, batch_vars,
                   object_vars, speech_vars, detect_vars, recorder_vars>>

\* The user puts a file in the uploader.
UploadVideo ==
    /\ ~uploaded_video
    /\ VideoRun(TRUE, analysis_type, FALSE, video_transcript,
                facial_expressions, Interaction("upload", ""))

\* The user takes the file out of the uploader.
RemoveVideo ==
    /\ uploaded_video
    /\ VideoRun(FALSE, analysis_type, FALSE, video_transcript,
                facial_expressions, Interaction("remove", ""))

\* The user picks another option of the radio.
SelectAnalysisType ==
    /\ OnScreen("radio")
    /\ \E type \in {AudioOnly, VisualOnly, Combined} \ {analysis_type} :
           VideoRun(uploaded_video, type, FALSE, video_transcript,
                    facial_expressions, Interaction("radio", type))

\* The user clicks 'Analyze Video'.
ClickAnalyze ==
    /\ OnScreen("button")
    /\ VideoRun(uploaded_video, analysis_type, TRUE, video_transcript,
                facial_expressions, Interaction("click", ""))

\* The user types a transcript into the text area and leaves the field.
TypeTranscript ==
    /\ OnScreen("text_area")
    /\ \E t \in VideoTexts \ {video_transcript} :
           VideoRun(uploaded_video, analysis_type, FALSE, t,
                    facial_expressions, Interaction("type", t))

\* The user changes the selection of the multiselect.
SelectExpressions ==
    /\ OnScreen("multiselect")
    /\ \E selected \in ExpressionChoices \ {facial_expressions} :
           VideoRun(uploaded_video, analysis_type, FALSE, video_transcript,
                    selected, Interaction("multiselect", ""))

NextVideo ==
    \/ UploadVideo
    \/ RemoveVideo
    \/ SelectAnalysisType
    \/ ClickAnalyze
    \/ TypeTranscript
    \/ SelectExpressions

SpecVideo == InitVideo /\ [][NextVideo]_vars

(***************************************************************************)
(* The speech recorder in the browser: the component of voice_analyzer.py  *)
(* and its copy in simple_app.py (lines 381-474).  A handler runs to its   *)
(* end before the next one starts.  The recognition service of the browser *)
(* is idle, starting, listening or stopping: start() raises                *)
(* InvalidStateError unless it is idle, onstart follows start(), results   *)
(* come while it listens or stops, an error ends it, and onend is its last *)
(* event.  A disabled button gets no click.  The pictographs of the        *)
(* messages, the language setting and the copy button are left out.        *)
(***************************************************************************)
StatusSpan(color, message) ==
    "<span style=\"color: " \o color \o ";\">" \o message \o "</span>"

\* initSpeechRecognition(): the object, the status line, the start button
initSpeechRecognition(page, support, status, disabled) ==
    IF support # "none"
    THEN [ok |-> TRUE, recognition |-> support, status |-> status,
          start_disabled |-> disabled]
    ELSE [ok |-> FALSE, recognition |-> "undefined",
          status |-> StatusSpan("red",
              IF page = "voice_analyzer"
              THEN "Speech recognition not supported in this browser. "
                       \o "Please use Chrome, Edge, or Safari."
              ELSE "Speech recognition not supported. "
                       \o "Please use Chrome, Edge, or Safari."),
          start_disabled |-> IF page = "simple_app" THEN TRUE ELSE disabled]

\* Mutant: stopRecording does not look at isRecording.
ShouldStop_Unguarded(rec, recording) == rec # "undefined"

\* stopRecording(): if (recognition && isRecording)
ShouldStop(rec, recording) == rec # "undefined" /\ recording

\* stopRecording(), from the stop button and from onerror: the calls of
\* recognition.stop() so far, and the service after it.
stopRecording(rec, recording, stops, service) ==
    IF ShouldStop(rec, recording)
    THEN [stop_calls |-> stops \cup {recording},
          engine |-> IF service \in {"starting", "listening"} THEN "stopping"
                     ELSE service]
    ELSE [stop_calls |-> stops, engine |-> service]

\* What the service recognises in one result event: a final piece, an
\* interim piece.
SpeechPieces == {[final |-> "", interim |-> "he"],
                 [final |-> "hi", interim |-> ""],
                 [final |-> "hi", interim |-> "yo"]}

ErrorCodes == {"no-speech", "not-allowed", "network"}

InitRecorder ==
    /\ pc = "page"
    /\ recorder_page \in {"voice_analyzer", "simple_app"}
    /\ browser_support \in {"webkitSpeechRecognition", "SpeechRecognition", "none"}
    /\ recognition = "undefined"
    /\ isRecording = FALSE
    /\ start_disabled = FALSE
    /\ stop_disabled = TRUE
    /\ status_html = ""
    /\ transcript_html = ""
    /\ finalTranscript = ""
    /\ component_value = ""
    /\ engine = "idle"
    /\ stop_calls = {}
    /\ AnalyzerIdle
    /\ SimpleIdle
    /\ LangIdle
    /\ BatchIdle
    /\ ObjectIdle
    /\ SpeechIdle
    /\ DetectIdle
    /\ VideoIdle

RecorderFrame ==
    UNCHANGED <<recorder_page, browser_support, analyzer_vars, simple_vars,
                lang_vars, batch_vars, object_vars, speech_vars, detect_vars,
                video_vars>>

\* window.onload
OnLoad ==
    /\ pc = "page"
    /\ pc' = "ready"
    /\ LET init == initSpeechRecognition(recorder_page, browser_support,
                                         status_html, start_disabled)
       IN  /\ recognition' = init.recognition
           /\ status_html' = init.status
           /\ start_disabled' = init.start_disabled
    /\ UNCHANGED <<isRecording, stop_disabled, transcript_html, finalTranscript,
                   component_value, engine, stop_calls>>
    /\ RecorderFrame

\* A click on the start button: startRecording().  recognition.start()
\* raises when the service is not idle, and the handler ends there.
StartClick ==
    /\ pc = "ready"
    /\ ~start_disabled
    /\ LET init == IF recognition = "undefined"
                   THEN initSpeechRecognition(recorder_page, browser_support,
                                              status_html, start_disabled)
                   ELSE [ok |-> TRUE, recognition |-> recognition,
                         status |-> status_html,
                         start_disabled |-> start_disabled]
       IN  /\ recognition' = init.recognition
           /\ status_html' = init.status
           /\ start_disabled' = init.start_disabled
           /\ IF ~init.ok
              THEN UNCHANGED <<transcript_html, finalTranscript, engine>>
              ELSE /\ transcript_html' = IF recorder_page = "voice_analyzer"
                                         THEN "" ELSE "Listening..."
                   /\ finalTranscript' = ""
                   /\ engine' = IF engine = "idle" THEN "starting" ELSE engine
    /\ UNCHANGED <<pc, isRecording, stop_disabled, component_value, stop_calls>>
    /\ RecorderFrame

\* A click on the stop button.
StopClick ==
    /\ pc = "ready"
    /\ ~stop_disabled
    /\ LET stopped == stopRecording(recognition, isRecording, stop_calls, engine)
       IN  /\ stop_calls' = stopped.stop_calls
           /\ engine' = stopped.engine
    /\ UNCHANGED <<pc, recognition, isRecording, start_disabled, stop_disabled,
                   status_html, transcript_html, finalTranscript,
                   component_value>>
    /\ RecorderFrame

\* recognition.onstart
OnStart ==
    /\ pc = "ready"
    /\ engine = "starting"
    /\ engine' = "listening"
    /\ status_html' = StatusSpan("green",
           IF recorder_page = "voice_analyzer" THEN "Listening... Speak now!"
           ELSE "Listening in English... Speak now!")
    /\ start_disabled' = TRUE
    /\ stop_disabled' = FALSE
    /\ isRecording' = TRUE
    /\ UNCHANGED <<pc, recognition, transcript_html, finalTranscript,
                   component_value, stop_calls>>
    /\ RecorderFrame

\* recognition.onresult
OnResult ==
    /\ pc = "ready"
    /\ engine \in {"listening", "stopping"}
    /\ \E piece \in SpeechPieces :
          IF recorder_page = "voice_analyzer"
          THEN /\ transcript_html' =
                      "<strong>Final:</strong> " \o piece.final
                          \o "<br><strong>Interim:</strong> <em>"
                          \o piece.interim \o "</em>"
               /\ component_value' = IF piece.final # "" THEN piece.final
                                     ELSE component_value
               /\ UNCHANGED finalTranscript
          ELSE /\ piece.final # "" =>
                      Len(finalTranscript) + Len(piece.final) + 1 <= MaxTranscript
               /\ finalTranscript' = IF piece.final # ""
                                     THEN finalTranscript \o piece.final \o " "
                                     ELSE finalTranscript
               /\ transcript_html' =
                      "<strong>Final:</strong> " \o finalTranscript'
                          \o "<br><strong>Speaking:</strong> "
                          \o "<em style=\"color: #666;\">"
                          \o piece.interim \o "</em>"
               /\ UNCHANGED component_value
    /\ UNCHANGED <<pc, recognition, isRecording, start_disabled, stop_disabled,
                   status_html, engine, stop_calls>>
    /\ RecorderFrame

\* recognition.onerror; the service then ends.
OnError ==
    /\ pc = "ready"
    /\ engine # "idle"
    /\ \E code \in ErrorCodes :
          status_html' = StatusSpan("red", "Error: " \o code)
    /\ stop_calls' =
           stopRecording(recognition, isRecording, stop_calls, engine).stop_calls
    /\ engine' = "stopping"
    /\ UNCHANGED <<pc, recognition, isRecording, start_disabled, stop_disabled,
                   transcript_html, finalTranscript, component_value>>
    /\ RecorderFrame

\* recognition.onend
OnEnd ==
    /\ pc = "ready"
    /\ engine \in {"listening", "stopping"}
    /\ engine' = "idle"
    /\ status_html' =
           IF recorder_page = "simple_app"
           THEN StatusSpan("orange", "Recording stopped. Final transcript ready.")
           ELSE IF isRecording THEN StatusSpan("orange", "Recording stopped")
           ELSE status_html
    /\ start_disabled' = FALSE
    /\ stop_disabled' = TRUE
    /\ isRecording' = FALSE
    /\ UNCHANGED <<pc, recognition, transcript_html, finalTranscript,
                   component_value, stop_calls>>
    /\ RecorderFrame

NextRecorder ==
    \/ OnLoad
    \/ StartClick
    \/ StopClick
    \/ OnStart
    \/ OnResult
    \/ OnError
    \/ OnEnd

SpecRecorder == InitRecorder /\ [][NextRecorder]_vars

(***************************************************************************)
(* Vocabulary of the properties.                                           *)
(***************************************************************************)
Returned == pc = "returned"

\* The text is made of whitespace alone (the empty text included).
OnlyWhitespace(t) == \A i \in 1..Len(t) : SubSeq(t, i, i) \in Whitespace

WellFormed(entry) == "label" \in DOMAIN entry /\ "score" \in DOMAIN entry

\* The classifier call or the handling of its answer fails: the call raises,
\* the answer is the empty list, or an entry lacks 'label' or 'score'.
Fails(answer) ==
    \/ answer.kind = "raise"
    \/ answer.kind = "flat" /\ answer.entries = <<>>
    \/ \E i \in 1..Len(answer.entries) : ~WellFormed(answer.entries[i])

\* analyze_sentiment ran on a non-blank text and the classifier succeeded.
Succeeded == Returned /\ ~OnlyWhitespace(text) /\ ~Fails(classifier_answer)

IsNeutralOnly(d) ==
    /\ {d.order[i] : i \in 1..Len(d.order)} = {"POSITIVE", "NEGATIVE", "NEUTRAL"}
    /\ Len(d.order) = 3
    /\ DictAt(d, "POSITIVE") = 0
    /\ DictAt(d, "NEGATIVE") = 0
    /\ DictAt(d, "NEUTRAL") = ScoreDen

\* The documented synonym table.
Synonyms(bucket) ==
    CASE bucket = "POSITIVE" -> {"POSITIVE", "POS", "LABEL_2", "4 STARS", "5 STARS"}
      [] bucket = "NEGATIVE" -> {"NEGATIVE", "NEG", "LABEL_0", "1 STAR", "2 STARS"}
      [] bucket = "NEUTRAL"  -> {"NEUTRAL", "NEU", "LABEL_1", "3 STARS"}

Buckets == {"POSITIVE", "NEGATIVE", "NEUTRAL"}

\* Two characters are the same letter in either case, or the same character.
SameCharIgnoringCase(a, b) ==
    \/ a = b
    \/ \E i \in 1..Len(UpperCaseLetters) :
           {a, b} = {UpperCaseLetters[i], LowerCaseLetters[i]}

EqualIgnoringCase(a, b) ==
    /\ Len(a) = Len(b)
    /\ \A i \in 1..Len(a) : SameCharIgnoringCase(SubSeq(a, i, i), SubSeq(b, i, i))

IsSynonym(label, bucket) == \E syn \in Synonyms(bucket) : EqualIgnoringCase(label, syn)

ContainsIgnoringCase(label, word) ==
    \E i \in 1..(Len(label) - Len(word) + 1) :
        EqualIgnoringCase(SubSeq(label, i, i + Len(word) - 1), word)

\* The documented matching policy: the synonym table first, then "pos"
\* before "neg", otherwise neutral.
DocumentedBucket(label) ==
    IF \E b \in Buckets : IsSynonym(label, b)
    THEN CHOOSE b \in Buckets : IsSynonym(label, b)
    ELSE IF ContainsIgnoringCase(label, "pos") THEN "POSITIVE"
    ELSE IF ContainsIgnoringCase(label, "neg") THEN "NEGATIVE"
    ELSE "NEUTRAL"

\* Sum of the scores of the entries at the positions `indices`.
RECURSIVE SumAt(_, _)
SumAt(entries, indices) ==
    IF indices = {} THEN 0
    ELSE LET i == CHOOSE i \in indices : TRUE
         IN  entries[i].score + SumAt(entries, indices \ {i})

TotalScore(entries) == SumAt(entries, 1..Len(entries))

\* Sum of the scores of the entries the documented policy puts in `bucket`.
DocumentedScore(entries, bucket) ==
    SumAt(entries, {i \in 1..Len(entries) : DocumentedBucket(entries[i].label) = bucket})

Answered == classifier_answer.entries

(***************************************************************************)
(* C1. For a non-blank text, when the classifier call or the handling of   *)
(* its answer fails (the call raises, the answer is the empty list, an     *)
(* entry has no label or no score), analyze_sentiment returns the normal   *)
(* dictionary NEUTRAL, confidence 0, all_scores {0, 0, 1}, with an error   *)
(* message.                                                                *)
(***************************************************************************)
C1_FailureReturnsNeutral ==
    (Returned /\ ~OnlyWhitespace(text) /\ Fails(classifier_answer)) =>
        /\ result.sentiment = "NEUTRAL"
        /\ result.confidence = 0
        /\ IsNeutralOnly(result.all_scores)
        /\ result.error # None
        /\ result.error # "Empty text provided"

\* An entry without 'score' after a well-formed one.
C1_Witness ==
    /\ Returned /\ ~OnlyWhitespace(text)
    /\ classifier_answer.kind = "nested"
    /\ Len(Answered) = 2
    /\ WellFormed(Answered[1]) /\ "score" \notin DOMAIN Answered[2]
    /\ result.error = "Error analyzing sentiment: 'score'"

(***************************************************************************)
(* C2. For a text that is empty or only whitespace, analyze_sentiment      *)
(* returns NEUTRAL, confidence 0, all_scores {0, 0, 1} and the error of    *)
(* the empty input, and does not invoke the classifier.                    *)
(***************************************************************************)
C2_BlankShortCircuits ==
    (Returned /\ OnlyWhitespace(text)) =>
        /\ result.sentiment = "NEUTRAL"
        /\ result.confidence = 0
        /\ IsNeutralOnly(result.all_scores)
        /\ result.error = "Empty text provided"
        /\ ~invoked
        /\ classifier_input = None

C2_Witness == Returned /\ text = " \t\n" /\ ~invoked

(***************************************************************************)
(* C3. simple_sentiment_analysis returns NEUTRAL with confidence 0 for     *)
(* every blank text: the empty string and every text of whitespace alone.  *)
(***************************************************************************)
C3_SimpleBlankIsZero ==
    (Returned /\ OnlyWhitespace(simple_text)) =>
        /\ simple_result.sentiment = "NEUTRAL"
        /\ simple_result.confidence = 0

(***************************************************************************)
(* C4. The mapping returned by _normalize_sentiment_labels has exactly the *)
(* keys POSITIVE, NEGATIVE and NEUTRAL, and a bucket no input label mapped *)
(* to has value 0 (also for the empty list).                               *)
(***************************************************************************)
C4_ThreeKeys ==
    Succeeded =>
        LET d == result.all_scores
        IN  /\ Len(d.order) = 3
            /\ {d.order[i] : i \in 1..3} = Buckets
            /\ \A b \in Buckets :
                   (\A i \in 1..Len(Answered) : DocumentedBucket(Answered[i].label) # b)
                       => DictAt(d, b) = 0

\* The empty list, and a list that leaves two buckets without a label.
C4_Witness ==
    /\ Succeeded
    /\ \/ Answered = <<>>
       \/ /\ Len(Answered) = 2
          /\ \A i \in 1..2 : DocumentedBucket(Answered[i].label) = "NEGATIVE"

(***************************************************************************)
(* C5. The three scores returned by _normalize_sentiment_labels sum to the *)
(* sum of all input scores.                                                *)
(***************************************************************************)
C5_SumPreserved ==
    Succeeded =>
        LET d == result.all_scores
        IN  DictAt(d, "POSITIVE") + DictAt(d, "NEGATIVE") + DictAt(d, "NEUTRAL")
                = TotalScore(Answered)

\* A label that repeats.
C5_Witness ==
    /\ Succeeded
    /\ Len(Answered) = 2
    /\ Answered[1].label = Answered[2].label
    /\ Answered[1].score # Answered[2].score

(***************************************************************************)
(* C6. An entry whose label equals a synonym-table entry, ignoring case,   *)
(* adds its whole score to the documented bucket and to no other: every    *)
(* bucket holds at least the scores of its synonyms and at most the total  *)
(* less the scores of the synonyms of the other buckets.                   *)
(***************************************************************************)
C6_SynonymsToDocumentedBucket ==
    Succeeded =>
        \A b \in Buckets :
            LET mine == {i \in 1..Len(Answered) : IsSynonym(Answered[i].label, b)}
                others == {i \in 1..Len(Answered) :
                              \E o \in Buckets \ {b} : IsSynonym(Answered[i].label, o)}
                got == DictAt(result.all_scores, b)
            IN  /\ got >= SumAt(Answered, mine)
                /\ got <= TotalScore(Answered) - SumAt(Answered, others)

\* A lower-case synonym the substring rule would put elsewhere.
C6_Witness ==
    /\ Succeeded
    /\ Len(Answered) = 2
    /\ Answered[1].label = "label_2" /\ Answered[2].label = "label_0"
    /\ DictAt(result.all_scores, "POSITIVE") = Answered[1].score

(***************************************************************************)
(* C7. A label that matches no synonym goes to POSITIVE when it contains   *)
(* "pos" (in any case, also when it contains "neg" too), otherwise to      *)
(* NEGATIVE when it contains "neg", otherwise to NEUTRAL; the synonym      *)
(* table takes priority over the substring rule.                           *)
(***************************************************************************)
C7_SubstringFallback ==
    Succeeded =>
        \A b \in Buckets :
            DictAt(result.all_scores, b) = DocumentedScore(Answered, b)

\* A label with both "neg" and "pos", "neg" first.
C7_Witness ==
    /\ Succeeded
    /\ \E i \in 1..Len(Answered) : Answered[i].label = "neg_pos"
    /\ \E i \in 1..Len(Answered) : Answered[i].label = "Negated"
    /\ DictAt(result.all_scores, "POSITIVE") > 0
    /\ DictAt(result.all_scores, "NEGATIVE") > 0

(***************************************************************************)
(* C8. When the classifier succeeds on a non-blank text, the sentiment is  *)
(* a bucket whose score is at least the score of each other bucket, the    *)
(* confidence is that score times 100, all_scores is the three-bucket      *)
(* mapping and error is None.                                              *)
(***************************************************************************)
C8_MaxBucketSelected ==
    Succeeded =>
        LET d == result.all_scores
        IN  /\ result.sentiment \in Buckets
            /\ \A b \in Buckets : DictAt(d, b) <= DictAt(d, result.sentiment)
            /\ result.confidence = 100 * DictAt(d, result.sentiment)
            /\ Len(d.order) = 3
            /\ {d.order[i] : i \in 1..3} = Buckets
            /\ result.error = None

\* The winner is not the first bucket of the mapping.
C8_Witness ==
    /\ Succeeded
    /\ result.sentiment = "NEUTRAL"
    /\ result.all_scores.order[1] = "POSITIVE"
    /\ result.confidence = 100 * 2
    /\ DictAt(result.all_scores, "POSITIVE") = 1

(***************************************************************************)
(* C9. As claimed: when buckets tie for the maximum, the sentiment is the  *)
(* first tied bucket in the order POSITIVE, NEGATIVE, NEUTRAL, whatever    *)
(* the order of the raw labels.                                            *)
(***************************************************************************)
IsMaximal(d, b) == \A o \in Buckets : DictAt(d, o) <= DictAt(d, b)

\* The first bucket of `order` that is maximal in d.
FirstMaximal(d, order) ==
    order[CHOOSE i \in 1..Len(order) :
              /\ IsMaximal(d, order[i])
              /\ \A j \in 1..(i - 1) : ~IsMaximal(d, order[j])]

C9_CanonicalTieBreak ==
    Succeeded =>
        result.sentiment = FirstMaximal(result.all_scores, <<"POSITIVE", "NEGATIVE", "NEUTRAL">>)

\* The buckets in the order the answer first names a label of each.
RECURSIVE FirstMentions(_, _, _)
FirstMentions(entries, i, seen) ==
    IF i > Len(entries) THEN seen
    ELSE LET b == DocumentedBucket(entries[i].label)
         IN  FirstMentions(entries, i + 1,
                           IF \E j \in 1..Len(seen) : seen[j] = b THEN seen
                           ELSE Append(seen, b))

\* ... followed by the buckets it never names, in the canonical order.
MentionOrder(entries) ==
    LET named == FirstMentions(entries, 1, <<>>)
        IsNamed(b) == \E j \in 1..Len(named) : named[j] = b
        Rest(order) == SelectSeq(order, LAMBDA b : ~IsNamed(b))
    IN  named \o Rest(<<"POSITIVE", "NEGATIVE", "NEUTRAL">>)

(***************************************************************************)
(* C9, amended. When buckets tie for the maximum, the sentiment is the     *)
(* first tied bucket in the insertion order of the normalized mapping:     *)
(* the buckets in the order the classifier output first names a label of   *)
(* each, then the buckets it never names in the order POSITIVE, NEGATIVE,  *)
(* NEUTRAL.                                                                *)
(***************************************************************************)
C9_InsertionOrderTieBreak ==
    Succeeded =>
        result.sentiment = FirstMaximal(result.all_scores, MentionOrder(Answered))

\* NEGATIVE and POSITIVE tie, NEGATIVE named first.
C9_Witness ==
    /\ Succeeded
    /\ Len(Answered) = 2
    /\ DocumentedBucket(Answered[1].label) = "NEGATIVE"
    /\ DocumentedBucket(Answered[2].label) = "POSITIVE"
    /\ Answered[1].score = Answered[2].score
    /\ result.sentiment = "NEGATIVE"

(***************************************************************************)
(* C10. For a non-empty text with p positive and n negative keywords,      *)
(* simple_sentiment_analysis returns POSITIVE with confidence              *)
(* min(90, 60 + 10 (p - n)) when p > n, NEGATIVE with confidence           *)
(* min(90, 60 + 10 (n - p)) when n > p, NEUTRAL with confidence 50 when    *)
(* p = n, and returns p and n as positive_score and negative_score.        *)
(***************************************************************************)
KeywordsIn(words, t) ==
    Cardinality({i \in 1..Len(words) : ContainsIgnoringCase(t, words[i])})

C10_SimpleVerdictFormula ==
    (Returned /\ simple_text # "") =>
        LET p == KeywordsIn(positive_words, simple_text)
            n == KeywordsIn(negative_words, simple_text)
            r == simple_result
        IN  /\ DOMAIN r = {"sentiment", "confidence", "positive_score", "negative_score"}
            /\ r.positive_score = p
            /\ r.negative_score = n
            /\ p > n => /\ r.sentiment = "POSITIVE"
                        /\ r.confidence = IF 60 + 10 * (p - n) > 90 THEN 90
                                          ELSE 60 + 10 * (p - n)
            /\ n > p => /\ r.sentiment = "NEGATIVE"
                        /\ r.confidence = IF 60 + 10 * (n - p) > 90 THEN 90
                                          ELSE 60 + 10 * (n - p)
            /\ p = n => r.sentiment = "NEUTRAL" /\ r.confidence = 50

\* The cap of 90 is what decides the confidence.
C10_Witness ==
    /\ Returned /\ simple_text # ""
    /\ simple_result.sentiment = "NEGATIVE"
    /\ simple_result.negative_score - simple_result.positive_score >= 4
    /\ simple_result.confidence = 90

(***************************************************************************)
(* C11. detect_language_simple counts ASCII letters (English), characters  *)
(* in U+0900..U+097F (Hindi) and in U+0C00..U+0C7F (Telugu); the script    *)
(* whose count is strictly greater than both others wins, with confidence  *)
(* count / (sum of the three counts) * 100; when all three counts are zero *)
(* (the empty text included) the result is Unknown with confidence 0.      *)
(***************************************************************************)
\* The number of characters of t whose code point is in lo..hi.
InRange(t, lo, hi) == Cardinality({i \in 1..Len(t) : t[i] \in lo..hi})

EnglishCount(t) == InRange(t, 65, 90) + InRange(t, 97, 122)

HindiCount(t) == InRange(t, 2304, 2431)

TeluguCount(t) == InRange(t, 3072, 3199)

\* The confidence is count / total * 100.
IsShare(confidence, count, total) ==
    confidence.num * total = count * 100 * confidence.den

C11_StrictPluralityWins ==
    Returned =>
        LET e == EnglishCount(lang_text)
            h == HindiCount(lang_text)
            t == TeluguCount(lang_text)
            r == lang_result
        IN  /\ (e = 0 /\ h = 0 /\ t = 0) =>
                   r.language = "Unknown" /\ r.confidence.num = 0
            /\ (e > h /\ e > t) =>
                   r.language = "English" /\ IsShare(r.confidence, e, e + h + t)
            /\ (h > e /\ h > t) =>
                   r.language = "Hindi" /\ IsShare(r.confidence, h, e + h + t)
            /\ (t > e /\ t > h) =>
                   r.language = "Telugu" /\ IsShare(r.confidence, t, e + h + t)

\* Telugu wins a text of three scripts; its last character is U+0C7F.
C11_Witness ==
    /\ Returned
    /\ Len(lang_text) = 3
    /\ lang_text[3] = 3199
    /\ HindiCount(lang_text) = 0 /\ EnglishCount(lang_text) = 1
    /\ lang_result.language = "Telugu"
    /\ lang_result.confidence = [num |-> 200, den |-> 3]

(***************************************************************************)
(* Vocabulary of the batch properties.                                     *)
(***************************************************************************)
\* The string form of a cell: the string itself, the decimal digits of an
\* integer, "nan" for the float NaN.
StringForm(cell) ==
    IF cell.type = "str" THEN cell.str
    ELSE IF cell.type = "float" THEN "nan"
    ELSE <<"0", "1", "2", "3", "4", "5", "6", "7", "8", "9">>[cell.int + 1]

NamesTextAnyCase(column) == ContainsIgnoringCase(column, "text")

HasTextColumn(file) ==
    \E c \in 1..Len(file.columns) : NamesTextAnyCase(file.columns[c])

\* The position of the first column whose name contains "text".
FirstTextColumn(file) ==
    CHOOSE c \in 1..Len(file.columns) :
        /\ NamesTextAnyCase(file.columns[c])
        /\ \A b \in 1..(c - 1) : ~NamesTextAnyCase(file.columns[b])

Shows(widget, body) ==
    \E i \in 1..Len(ui) : ui[i].widget = widget /\ ui[i].body = body

\* A result table, a summary count or a download is on the page.
ShowsOutput ==
    \/ results_df.shown
    \/ csv_data.shown
    \/ Shows("dataframe", "results_df")
    \/ \E i \in 1..Len(ui) : ui[i].widget \in {"metric", "download_button",
                                              "plotly_chart"}

LastShown == ui[Len(ui)]

IsGenericError(w) ==
    /\ w.widget = "error"
    /\ Len(w.body) >= 25
    /\ SubSeq(w.body, 1, 25) = "Error processing CSV file"

(***************************************************************************)
(* C12. In both apps, when every row is processed without an exception the *)
(* result table has one row per data row of the CSV, in the same order,    *)
(* and the Original_Text of row i is the string form of the chosen text    *)
(* column's value in input row i.                                          *)
(***************************************************************************)
C12_OneRowPerDataRow ==
    results_df.shown =>
        /\ Len(results_df.rows) = Len(uploaded_file.rows)
        /\ \A i \in 1..Len(results_df.rows) :
              results_df.rows[i][ColumnIndex(results_df.columns, "Original_Text")]
                  = StringForm(uploaded_file.rows[i]
                                   [ColumnIndex(uploaded_file.columns, text_column)])

\* Two rows: an empty field, read as NaN, then a review.
C12_Witness ==
    /\ pc = "completed"
    /\ batch_app = "full"
    /\ uploaded_file.columns = <<"id", "text">>
    /\ uploaded_file.rows = <<<<IntCell(1), NaN>>, <<IntCell(2), StrCell("I love it")>>>>
    /\ Len(results_df.rows) = 2
    /\ results_df.rows[1][1] = "nan"
    /\ results_df.rows[2][1] = "I love it"

(***************************************************************************)
(* C13. A CSV none of whose column names contains "text", in any letter    *)
(* case, is rejected with the 'No text column' error before any row is     *)
(* given to the language detector or the sentiment analyzer, and no result *)
(* table, summary or download is produced.                                 *)
(***************************************************************************)
C13_NoTextColumnRejected ==
    (uploaded_file.parsed /\ ~HasTextColumn(uploaded_file)) =>
        /\ analyzed = <<>>
        /\ batch_results = <<>>
        /\ ~ShowsOutput
        /\ pc \in {"uploaded", "ready", "rejected"}
        /\ pc = "rejected" => LastShown = NoTextColumnError

C13_Witness ==
    /\ pc = "rejected"
    /\ uploaded_file.columns = <<"id", "label">>
    /\ Len(uploaded_file.rows) = 2
    /\ LastShown = NoTextColumnError
    /\ analyzed = <<>>

(***************************************************************************)
(* C14. When several columns have a name containing "text", in any letter  *)
(* case, the batch reads every row's text from the first of them in the    *)
(* file's column order, and from no other column.                          *)
(***************************************************************************)
C14_FirstTextColumnRead ==
    (uploaded_file.parsed /\ HasTextColumn(uploaded_file)) =>
        LET first == FirstTextColumn(uploaded_file)
        IN  /\ text_column \in {None, uploaded_file.columns[first]}
            /\ pc \in {"loop", "completed"} => text_column # None
            /\ \A i \in 1..Len(analyzed) :
                  analyzed[i] = StringForm(uploaded_file.rows[i][first])

\* Review_Text comes before text: its cells are read, not those of text.
C14_Witness ==
    /\ pc = "completed"
    /\ uploaded_file.columns = <<"Review_Text", "text">>
    /\ uploaded_file.rows = <<<<StrCell("awful"), StrCell("I love it")>>,
                              <<StrCell("awful"), StrCell("bad")>>>>
    /\ text_column = "Review_Text"
    /\ analyzed = <<"awful", "awful">>

(***************************************************************************)
(* C15. Every batch run that completes, in the full app and in the         *)
(* fallback app, produces a download whose columns are exactly             *)
(* Original_Text, Detected_Language, Language_Confidence, Sentiment,       *)
(* Sentiment_Confidence, Positive_Score, Neutral_Score, Negative_Score and *)
(* Error.                                                                  *)
(***************************************************************************)
C15_DocumentedColumns ==
    pc = "completed" =>
        /\ csv_data.shown
        /\ csv_data.columns =
              <<"Original_Text", "Detected_Language", "Language_Confidence",
                "Sentiment", "Sentiment_Confidence", "Positive_Score",
                "Neutral_Score", "Negative_Score", "Error">>

(***************************************************************************)
(* C16. If processing a row raises an exception, the batch ends in the     *)
(* surrounding handler with the generic 'Error processing CSV file'        *)
(* message, and no result table, summary or download is produced, not even *)
(* for the rows processed before the failing one.                          *)
(***************************************************************************)
\* The run ended inside the loop.
RowRaised ==
    /\ pc = "aborted"
    /\ uploaded_file.parsed
    /\ next_row <= Len(uploaded_file.rows)

C16_RowFailureAbortsBatch ==
    RowRaised =>
        /\ IsGenericError(LastShown)
        /\ ~ShowsOutput
        /\ \A i \in 1..(Len(ui) - 1) : ui[i].widget # "error"

\* The second row fails after the first has been processed.
C16_Witness ==
    /\ RowRaised
    /\ fault = 2
    /\ Len(batch_results) = 1
    /\ Len(analyzed) = 1
    /\ IsGenericError(LastShown)

(***************************************************************************)
(* C17. The constructor attempts the requested model first and the         *)
(* fallback model only if that load fails; if the fallback load fails too  *)
(* the constructor raises that failure and no analyzer is obtained; when   *)
(* the constructor returns normally, classifier is not None.               *)
(***************************************************************************)
Constructed == pc = "constructed"

C17_LoadOrder ==
    /\ Len(loads) <= 2
    /\ Len(loads) >= 1 => loads[1] = requested_model
    /\ Len(loads) = 2 =>
          /\ ~load_outcomes[1]
          /\ loads[2] = "nlptown/bert-base-multilingual-uncased-sentiment"
    /\ (~load_outcomes[1] /\ ~load_outcomes[2]) =>
          /\ ~Constructed
          /\ calls = 0
          /\ pc \in {"raised", "stopped"} =>
                /\ Len(loads) = 2
                /\ load_error = "fallback model cannot be loaded"
    /\ pc \in {"raised", "stopped"} => (~load_outcomes[1] /\ ~load_outcomes[2])
    /\ Constructed =>
          /\ self_classifier # None
          /\ self_classifier = loads[Len(loads)]
          /\ load_outcomes[1] => Len(loads) = 1
          /\ load_error = None

\* Both loads have failed and the app has stopped.
C17_Witness ==
    /\ pc = "stopped"
    /\ loads = <<"cardiffnlp/twitter-xlm-roberta-base-sentiment",
                 "nlptown/bert-base-multilingual-uncased-sentiment">>
    /\ self_classifier = None
    /\ startup_error = "Error loading models: fallback model cannot be loaded"

(***************************************************************************)
(* C18. After construction, analyze_sentiment, analyze_batch and           *)
(* get_model_info leave classifier, model_name and device unchanged and    *)
(* load no model; every result returned for a text is the first result     *)
(* returned for that text, whatever was requested in between.              *)
(***************************************************************************)
C18_CallsLeaveAnalyzerUnchanged ==
    [][Constructed =>
          /\ pc' = pc
          /\ self_classifier' = self_classifier
          /\ self_model_name' = self_model_name
          /\ self_device' = self_device
          /\ loads' = loads
          /\ \A t \in DOMAIN first_results :
                first_results[t] # NoResult => first_results'[t] = first_results[t]
          /\ \A i \in 1..Len(last_call'.texts) :
                last_call'.values[i] = first_results'[last_call'.texts[i]]]_vars

\* The third call repeats the first text after a call that failed; the
\* analyzer runs on the fallback model.
C18_Witness ==
    /\ Constructed
    /\ calls = 3
    /\ loads = <<"cardiffnlp/twitter-xlm-roberta-base-sentiment",
                 "nlptown/bert-base-multilingual-uncased-sentiment">>
    /\ last_call.op = "analyze_sentiment"
    /\ last_call.texts = <<"I love it">>
    /\ last_call.values[1].sentiment = "POSITIVE"
    /\ last_call.values[1].error = None
    /\ first_results["nan"] # NoResult
    /\ first_results["nan"].error # None
    /\ first_results["bad"] # NoResult

(***************************************************************************)
(* Vocabulary of the speech properties.                                    *)
(***************************************************************************)
Transcribed == Returned /\ speech_fn = "transcribe_audio_google"

StartsWith(s, prefix) ==
    Len(s) >= Len(prefix) /\ SubSeq(s, 1, Len(prefix)) = prefix

\* A request was sent and this is what came of it.
Answered_With(kind) == requests_sent > 0 /\ http_outcome.kind = kind

StatusText(status) ==
    CASE status = 200 -> "200"
      [] status = 400 -> "400"
      [] status = 403 -> "403"
      [] status = 500 -> "500"

TimeoutMessage == "Request timeout - audio file may be too large"

(***************************************************************************)
(* C19. transcribe_audio_google never raises: a timeout, any other request *)
(* failure and a response whose status is not 200 each give a dictionary   *)
(* with a non-null error, with three pairwise distinct messages (the       *)
(* timeout message, 'Network error', 'API request failed: <status>'); a    *)
(* missing API key gives an error result too.                              *)
(***************************************************************************)
C19_TranscribeNeverRaises ==
    Transcribed =>
        LET error == speech_result.error
        IN  /\ ~speech_raised
            /\ "error" \in DOMAIN speech_result
            /\ Answered_With("timeout") => error = TimeoutMessage
            /\ Answered_With("connection") =>
                  /\ StartsWith(error, "Network error: ")
                  /\ error # TimeoutMessage
            /\ (Answered_With("response") /\ http_outcome.status # 200) =>
                  /\ StartsWith(error, "API request failed: "
                                           \o StatusText(http_outcome.status))
                  /\ ~StartsWith(error, "Network error")
                  /\ error # TimeoutMessage
            /\ (api_key = None \/ api_key = "") =>
                  error = "Google Cloud API key not found"

\* The request timed out.
C19_Witness ==
    /\ Transcribed
    /\ api_key = "AIzaSy-key"
    /\ requests_sent = 1
    /\ http_outcome.kind = "timeout"
    /\ speech_result.error = TimeoutMessage
    /\ ~speech_raised

(***************************************************************************)
(* C20. A call of transcribe_audio_google and a call of                    *)
(* test_google_speech_api each send at most one HTTP request, whatever the *)
(* outcome; no outcome causes a second attempt, and no request is sent     *)
(* when the API key is missing.                                            *)
(***************************************************************************)
C20_AtMostOneRequest ==
    /\ requests_sent <= 1
    /\ (api_key = None \/ api_key = "") => requests_sent = 0
    /\ pc = "response" => requests_sent = 1
    /\ (Returned /\ requests_sent = 0) =>
          (api_key \in {None, ""} \/ audio_data # "bytes")

\* The one request of test_google_speech_api has timed out.
C20_Witness ==
    /\ Returned
    /\ speech_fn = "test_google_speech_api"
    /\ http_outcome.kind = "timeout"
    /\ requests_sent = 1
    /\ speech_result.accessible = FALSE

(***************************************************************************)
(* C21. detect_language never raises: for an empty or whitespace-only      *)
(* text, an empty detection list and any exception of the library it       *)
(* returns language 'Unknown', code 'unknown', confidence 0.0,             *)
(* is_supported False and a non-null error; on success error is None, the  *)
(* language is the first detection, and is_supported holds exactly when    *)
(* its code is en, hi or te.                                               *)
(***************************************************************************)
DetectionFailed ==
    \/ OnlyWhitespace(det_text)
    \/ det_answer.kind # "list"
    \/ Len(det_answer.langs) = 0

C21_DetectNeverRaises ==
    Returned =>
        /\ {"language", "language_code", "confidence", "is_supported", "error"}
              \subseteq DOMAIN det_result
        /\ DetectionFailed =>
              /\ det_result.language = "Unknown"
              /\ det_result.language_code = "unknown"
              /\ det_result.confidence.num = 0
              /\ det_result.is_supported = FALSE
              /\ det_result.error # "None"
        /\ ~DetectionFailed =>
              /\ det_result.error = "None"
              /\ det_result.language_code = det_answer.langs[1].lang
              /\ det_result.confidence = det_answer.langs[1].prob
              /\ det_result.is_supported
                    = (det_answer.langs[1].lang \in {"en", "hi", "te"})
              /\ det_answer.langs[1].lang = "hi" => det_result.language = "Hindi"

\* Hindi before English: Hindi is reported, and it is supported.
C21_Witness ==
    /\ Returned
    /\ det_text = "I love it"
    /\ Len(det_answer.langs) = 2
    /\ det_answer.langs[1].lang = "hi"
    /\ det_answer.langs[2].lang = "en"
    /\ det_result.language = "Hindi"
    /\ det_result.is_supported
    /\ det_result.error = "None"

(***************************************************************************)
(* C22. When the three counts of detect_language_simple are not all zero   *)
(* and no script has a count strictly greater than both others, the        *)
(* result is English with confidence English count / total * 100, which   *)
(* is 0 when the text has no ASCII letters.                                *)
(***************************************************************************)
StrictWinner(e, h, t) ==
    \/ e > h /\ e > t
    \/ h > e /\ h > t
    \/ t > e /\ t > h

C22_TiesGoToEnglish ==
    Returned =>
        LET e == EnglishCount(lang_text)
            h == HindiCount(lang_text)
            t == TeluguCount(lang_text)
        IN  (e + h + t > 0 /\ ~StrictWinner(e, h, t)) =>
                /\ lang_result.language = "English"
                /\ IsShare(lang_result.confidence, e, e + h + t)
                /\ e = 0 => lang_result.confidence.num = 0

\* One Devanagari and one Telugu character, no ASCII letter.
C22_Witness ==
    /\ Returned
    /\ lang_text = <<2304, 3199>>
    /\ lang_result.language = "English"
    /\ lang_result.confidence = [num |-> 0, den |-> 2]

(***************************************************************************)
(* C23. analyze_sentiment never passes more than 512 characters to the     *)
(* classifier: the classifier receives the whitespace-stripped text when   *)
(* that has at most 512 characters, and otherwise exactly its first 512    *)
(* characters; the truncation leaves no trace in the result (its keys are  *)
(* the four usual ones and 'error' is None unless the call or the          *)
(* handling of its answer fails).                                          *)
(***************************************************************************)
\* The text between its first and its last non-whitespace character.
Stripped(t) ==
    IF OnlyWhitespace(t) THEN ""
    ELSE SubSeq(t,
                CHOOSE i \in 1..Len(t) :
                    /\ SubSeq(t, i, i) \notin Whitespace
                    /\ OnlyWhitespace(SubSeq(t, 1, i - 1)),
                CHOOSE j \in 1..Len(t) :
                    /\ SubSeq(t, j, j) \notin Whitespace
                    /\ OnlyWhitespace(SubSeq(t, j + 1, Len(t))))

C23_AtMost512Characters ==
    (Returned /\ invoked) =>
        LET stripped == Stripped(text)
        IN  /\ Len(classifier_input) <= 512
            /\ Len(stripped) <= 512 => classifier_input = stripped
            /\ Len(stripped) > 512 =>
                  /\ Len(classifier_input) = 512
                  /\ classifier_input = SubSeq(stripped, 1, 512)
            /\ DOMAIN result = {"sentiment", "confidence", "all_scores", "error"}
            /\ ~Fails(classifier_answer) => result.error = None

\* A text of 514 characters after stripping, classified without an error.
C23_Witness ==
    /\ Returned /\ invoked
    /\ Len(Stripped(text)) = 514
    /\ Len(classifier_input) = 512
    /\ ~Fails(classifier_answer)
    /\ result.error = None

(***************************************************************************)
(* C24. simple_sentiment_analysis matches keywords by substring            *)
(* containment in the lowercased text, not by whole words: a keyword       *)
(* counts whenever it occurs anywhere inside the text, also inside a       *)
(* longer word.  A text whose only keyword-bearing word is 'dislike'       *)
(* counts the positive 'like' and the negative 'dislike' and is NEUTRAL    *)
(* with confidence 50; a text containing 'badha' counts both negative      *)
(* keywords 'bad' and 'badha'.                                             *)
(***************************************************************************)
\* The keywords of the list that occur somewhere in t, case ignored.
Present(words, t) ==
    {words[i] : i \in {k \in 1..Len(words) : ContainsIgnoringCase(t, words[k])}}

C24_SubstringMatching ==
    (Returned /\ simple_text # "") =>
        LET pos == Present(positive_words, simple_text)
            neg == Present(negative_words, simple_text)
        IN  /\ ContainsIgnoringCase(simple_text, "dislike") =>
                /\ simple_result.positive_score >= 1
                /\ simple_result.negative_score >= 1
            /\ (pos = {"like"} /\ neg = {"dislike"}) =>
                /\ simple_result.positive_score = 1
                /\ simple_result.negative_score = 1
                /\ simple_result.sentiment = "NEUTRAL"
                /\ simple_result.confidence = 50
            /\ ContainsIgnoringCase(simple_text, "badha") =>
                /\ {"bad", "badha"} \subseteq neg
                /\ simple_result.negative_score >= 2

\* 'dislike' alone, and 'badha' alone.
C24_Witness ==
    /\ Returned
    /\ simple_text = "dislike"
    /\ simple_result.sentiment = "NEUTRAL"
    /\ simple_result.confidence = 50
    /\ simple_result.positive_score = 1
    /\ simple_result.negative_score = 1

(***************************************************************************)
(* C28. In simple_sentiment_analysis each keyword contributes at most 1    *)
(* to its count however many times it occurs in the text: the positive     *)
(* count is the number of distinct positive keywords present, the negative *)
(* count the number of distinct negative keywords present, and so          *)
(* repeating the keywords of a text changes neither the sentiment nor the  *)
(* confidence.                                                             *)
(***************************************************************************)
\* The number of places of t where the word starts, case ignored.
Occurrences(t, word) ==
    Cardinality({i \in 1..(Len(t) - Len(word) + 1) :
                    EqualIgnoringCase(SubSeq(t, i, i + Len(word) - 1), word)})

\* Some keyword occurs more than once in t.
RepeatsKeyword(t) ==
    \E i \in 1..Len(positive_words) : Occurrences(t, positive_words[i]) > 1

C28_KeywordCountsOnce ==
    (Returned /\ simple_text # "") =>
        LET again == simple_sentiment_analysis(simple_text \o " " \o simple_text)
        IN  /\ simple_result.positive_score =
                  Cardinality(Present(positive_words, simple_text))
            /\ simple_result.negative_score =
                  Cardinality(Present(negative_words, simple_text))
            /\ again.sentiment = simple_result.sentiment
            /\ again.confidence = simple_result.confidence

\* 'good' twice counts as one positive keyword.
C28_Witness ==
    /\ Returned
    /\ simple_text = "good good"
    /\ RepeatsKeyword(simple_text)
    /\ simple_result.positive_score = 1
    /\ simple_result.sentiment = "POSITIVE"
    /\ simple_result.confidence = 70

(***************************************************************************)
(* C25. In the video tab of the fallback app, a user who uploads a video,  *)
(* clicks 'Analyze Video' with an analysis type that includes audio, and   *)
(* then types a non-empty transcript sees the language and the sentiment   *)
(* of the transcript (and, for 'Combined Analysis', the combined result)   *)
(* once the run that the typing caused has ended.                          *)
(***************************************************************************)
OnVideoScreen(widget, prefix) ==
    \E i \in 1..Len(video_screen) :
        /\ video_screen[i].widget = widget
        /\ StartsWith(video_screen[i].body, prefix)

ShowsAudioResults ==
    /\ OnVideoScreen("info", "**Audio Language:**")
    /\ \E w \in {"success", "error", "warning"} :
           OnVideoScreen(w, "**Audio Sentiment:**")

ShowsCombinedResult ==
    \E w \in {"success", "error", "warning"} :
        OnVideoScreen(w, "**Overall Video Sentiment:**")

\* The last two interactions are the click and the typing of a transcript.
TypedAfterClick ==
    LET n == Len(video_history)
    IN  /\ n >= 3
        /\ uploaded_video
        /\ \E i \in 1..(n - 2) : video_history[i].op = "upload"
        /\ video_history[n - 1].op = "click"
        /\ video_history[n].op = "type"
        /\ video_history[n].text # ""

C25_TypedTranscriptIsAnalysed ==
    TypedAfterClick =>
        /\ analysis_type \in {AudioOnly, Combined} => ShowsAudioResults
        /\ analysis_type = Combined => ShowsCombinedResult

\* What the tab does instead: no run ever shows a result for the audio.
VideoNeverShowsAudioResults == ~ShowsAudioResults /\ ~ShowsCombinedResult

(***************************************************************************)
(* C26. In the batch analysis of the full app, a row whose                 *)
(* analyze_sentiment result carries an error (the blank text cell          *)
(* included) does not stop the batch: it is recorded as one result row     *)
(* with Sentiment 'ERROR', Sentiment_Confidence 0, Positive_Score,         *)
(* Neutral_Score and Negative_Score all 0 and Error set to the message,    *)
(* and every later row is still processed: the loop stops only where an    *)
(* exception is raised.                                                    *)
(***************************************************************************)
Field(row, column) == DictGet(row, column, "missing")

IsErrorRow(row, message) ==
    /\ Field(row, "Sentiment") = "ERROR"
    /\ Field(row, "Sentiment_Confidence") = 0
    /\ Field(row, "Positive_Score") = 0
    /\ Field(row, "Neutral_Score") = 0
    /\ Field(row, "Negative_Score") = 0
    /\ Field(row, "Error") = message

C26_ErrorRowsDoNotStopTheBatch ==
    batch_app = "full" =>
        /\ Len(batch_results) <= Len(analyzed)
        /\ \A i \in 1..Len(batch_results) :
              LET sentiment_result == analyze_sentiment(DefaultModel, analyzed[i])
              IN  /\ Field(batch_results[i], "Original_Text") = analyzed[i]
                  /\ OnlyWhitespace(analyzed[i]) =>
                        sentiment_result.error = "Empty text provided"
                  /\ sentiment_result.error # None =>
                        IsErrorRow(batch_results[i], sentiment_result.error)
        /\ RowRaised => fault = next_row
        /\ pc = "completed" => Len(batch_results) = Len(uploaded_file.rows)

\* A blank cell and a cell the classifier fails on, then a row that is fine.
C26_Witness ==
    /\ batch_app = "full"
    /\ pc = "completed"
    /\ Len(uploaded_file.rows) = 2
    /\ analyzed[1] = " "
    /\ IsErrorRow(batch_results[1], "Empty text provided")
    /\ analyzed[2] = "I love it"
    /\ Field(batch_results[2], "Sentiment") = "POSITIVE"
    /\ Field(batch_results[2], "Error") = None

(***************************************************************************)
(* C27. For a CSV that has a text column but no data row, the batch        *)
(* analysis of both apps builds a result table without a Sentiment column, *)
(* fails when it computes the summary counts, and ends in the generic      *)
(* 'Error processing CSV file' branch; the download is never reached.      *)
(***************************************************************************)
NoDataRow == uploaded_file.parsed /\ Len(uploaded_file.rows) = 0

C27_NoDataRowFailsAtSummary ==
    NoDataRow =>
        /\ pc # "completed"
        /\ ~csv_data.shown
        /\ \A i \in 1..Len(ui) :
              ui[i].widget \notin {"metric", "download_button", "plotly_chart"}
        /\ results_df.shown =>
              /\ pc = "aborted"
              /\ results_df.rows = <<>>
              /\ \A i \in 1..Len(results_df.columns) :
                    results_df.columns[i] # "Sentiment"
              /\ Shows("dataframe", "results_df")
              /\ IsGenericError(LastShown)
              /\ LastShown.body = "Error processing CSV file: 'Sentiment'"
        /\ (pc = "aborted" /\ text_column # None) => results_df.shown

\* The full app after the click, for a file that is a header alone.
C27_Witness ==
    /\ NoDataRow
    /\ batch_app = "full"
    /\ text_column # None
    /\ pc = "aborted"
    /\ results_df.shown
    /\ results_df.columns = <<>>
    /\ LastShown.body = "Error processing CSV file: 'Sentiment'"

(***************************************************************************)
(* C29. When the requested model fails to load and the fallback model      *)
(* loads, model_name is left at the requested name: get_model_info then    *)
(* reports loaded = true together with the name of the model that failed   *)
(* to load, not the name of the fallback model that is in use.             *)
(***************************************************************************)
RunsOnFallback ==
    /\ Constructed
    /\ Len(loads) = 2
    /\ ~load_outcomes[1]
    /\ load_outcomes[2]

C30_ButtonsFollowIsRecording ==
    /\ recognition # "undefined" =>
          /\ start_disabled <=> isRecording
          /\ stop_disabled <=> ~isRecording
    /\ \A recording \in stop_calls : recording

\* An error while recording: stop() has been called, onend has not come yet.
C30_Witness ==
    /\ recognition # "undefined"
    /\ isRecording
    /\ start_disabled
    /\ ~stop_disabled
    /\ engine = "stopping"
    /\ stop_calls = {TRUE}
    /\ status_html = StatusSpan("red", "Error: network")

====
